---- MODULE Spec2Model ----
(***************************************************************************)
(* State-machine model of the ledger engine of kaleys/my-blockchain:       *)
(* Transaction / UTXOSet / Block / Blockchain (server/src/modules).        *)
(*                                                                         *)
(* Values.  A SHA-256 digest is modelled by the hashed content itself (a   *)
(* tuple), i.e. a collision-free hash; the number of leading zero hex      *)
(* digits of a block hash is a fixed pseudo-random function of the header  *)
(* (LeadingZeros).  Amounts are counted in tenths of a token (Unit), the   *)
(* granularity of the 10 % fee on an integer amount.  Time is counted from *)
(* the genesis timestamp.  The 64-zero transaction id is ZeroId, and       *)
(* 0xffffffff is CoinbaseIndex (all 32 bits set).                          *)
(***************************************************************************)
EXTENDS Integers, Sequences, FiniteSets, TLC

VARIABLES
    chain,       \* Blockchain.chain: sequence of blocks, chain[1] is genesis
    utxoSet,     \* Blockchain.utxoSet: the UTXOSet object
    mempool,     \* Blockchain.mempool: Map id -> tx, in insertion order
    difficulty,  \* Blockchain.difficulty
    now,         \* the wall clock read by Date.now()
    result,      \* what the last public call returned
    miningManager, \* the MiningManager object and the event loop around it
    p2pNetwork   \* Blockchain.p2pNetwork, the peer sockets and the node process

vars == <<chain, utxoSet, mempool, difficulty, now, result, miningManager, p2pNetwork>>

(***************************************************************************)
(* Bounds of the model.                                                    *)
(***************************************************************************)
MaxHeight == 1      \* blocks mined after genesis
MaxMempool == 2     \* transactions held in the mempool
MaxInputs == 2      \* inputs of a submitted transaction
MaxBlocks == 3      \* blocks appended after genesis when blocks arrive from outside
MaxBlockTxs == 2    \* non-coinbase transactions of a foreign block
MaxClockStep == 1   \* milliseconds that may pass between two clock reads
MaxClock == 4       \* last clock reading of a run
MaxUtxos == 4       \* UTXO records beyond which no further block is offered
ShortChain == 9     \* height of a chain too short for a retarget
IntervalChain == 11 \* height of a chain whose last 10 blocks are all mined blocks
RetargetHeight == 12 \* height at which the paced miner stops
MaxRelayed == 2     \* blocks appended after genesis while transfers are pending
MaxTimers == 2      \* pending mineNextBlock timers
MaxStopRequests == 2 \* stop requests waiting for the event loop
MaxReceived == 2    \* segments taken from peers
MaxSupply == 400    \* total supply beyond which no transaction is applied to the set alone

(***************************************************************************)
(* Program constants.                                                      *)
(***************************************************************************)
Unit == 10
minerInitialAmount == 10 * Unit
baseBlockReward == 20 * Unit
feePercentage == 10
initialDifficulty == 2
targetBlockTime == 10000
difficultyAdjustmentInterval == 10
maxDifficulty == 20
\* maxTransactions of Block.isValid (Block.js 289), which is 2000: scaled so that
\* a block holds the coinbase and MaxMempool transactions and not one more
maxTransactions == 3
\* this.maxTransactionsPerBlock of Block.js 518, which is 2000: scaled with the
\* mempool, which holds MaxMempool transactions here
maxTransactionsPerBlock == 1
GenesisTime == 0
maxFutureWindow == 2 * 60 * 60 * 1000
CoinbaseIndex == -1

ZeroId == <<>>
Null == <<>>
NoHeight == -1

Keys == {"kA", "kB", "kM"}
Addresses == {"oxA", "oxB", "oxM"}
\* the miner wallet's address; app.js funds it in the genesis block
minerAddress == "oxM"
initialMinerAddress == minerAddress

\* the address a public key hashes to (CosmJS branch of generateAddress)
DeriveAddress(publicKey) ==
    CASE publicKey = "kA" -> "oxA"
      [] publicKey = "kB" -> "oxB"
      [] publicKey = "kM" -> "oxM"
      [] OTHER -> "ox?"

KeyOfAddress(address) ==
    CASE address = "oxA" -> "kA"
      [] address = "oxB" -> "kB"
      [] address = "oxM" -> "kM"
      [] OTHER -> ""

(***************************************************************************)
(* Sequence helpers.                                                       *)
(***************************************************************************)
Range(s) == {s[i] : i \in 1..Len(s)}

RECURSIVE SumSeq(_)
SumSeq(s) == IF s = <<>> THEN 0 ELSE Head(s) + SumSeq(Tail(s))

RECURSIVE SumSet(_)
SumSet(S) ==
    IF S = {} THEN 0
    ELSE LET x == CHOOSE y \in S : TRUE IN x.amount + SumSet(S \ {x})

RECURSIVE SeqsUpTo(_, _)
\* all sequences over S of length 0..n
SeqsUpTo(S, n) ==
    IF n = 0 THEN {<<>>}
    ELSE LET shorter == SeqsUpTo(S, n - 1)
         IN shorter \cup {Append(s, x) : s \in {t \in shorter : Len(t) = n - 1}, x \in S}

(***************************************************************************)
(* CryptoUtils.                                                            *)
(***************************************************************************)
\* /^ox[0-9a-z]{37}$/
isValidAddress(address) == address \in Addresses

generateAddress(publicKey, fromAddress) ==
    IF fromAddress # "" /\ isValidAddress(fromAddress)
    THEN fromAddress
    ELSE DeriveAddress(publicKey)

\* an ECDSA signature: the signing key and the signed message
cryptoSign(data, privateKey) == <<privateKey>> \o data

cryptoVerify(data, signature, publicKey) ==
    /\ signature # <<>>
    /\ publicKey # ""
    /\ data # <<>>
    /\ Len(signature) = 5
    /\ signature = <<publicKey>> \o data

CustomExchange == <<"custom_exchange">>

\* JSON.stringify({transactionId, inputIndex, outputAddress, amount})
SignatureData(transactionId, inputIndex, outputAddress, amount) ==
    <<transactionId, inputIndex, outputAddress, amount>>

\* sha256 of the concatenation of two digests
Sha256Pair(a, b) == <<a, b>>
\* sha256('')
Sha256Empty == <<0>>

RECURSIVE MerklePairs(_)
MerklePairs(level) ==
    IF level = <<>> THEN <<>>
    ELSE <<Sha256Pair(level[1], level[2])>> \o MerklePairs(SubSeq(level, 3, Len(level)))

RECURSIVE cryptoCalculateMerkleRoot(_)
cryptoCalculateMerkleRoot(hashes) ==
    IF Len(hashes) = 0 THEN Sha256Empty
    ELSE IF Len(hashes) = 1 THEN hashes[1]
    ELSE LET levelHashes == IF Len(hashes) % 2 # 0
                            THEN Append(hashes, hashes[Len(hashes)])
                            ELSE hashes
         IN cryptoCalculateMerkleRoot(MerklePairs(levelHashes))

(***************************************************************************)
(* UTXO and UTXOSet (UTXOSet.js).  utxos and spentUTXOs are Maps keyed by  *)
(* "txId:outputIndex": sets of records with at most one record per key.    *)
(* addressIndex (Map address -> Set of keys) is the sequence of its        *)
(* (address, key) pairs in insertion order.                                *)
(***************************************************************************)
UTXO(transactionId, outputIndex, address, amount, blockHeight, scriptPubKey) ==
    [transactionId |-> transactionId, outputIndex |-> outputIndex,
     address |-> address, amount |-> amount, blockHeight |-> blockHeight,
     scriptPubKey |-> scriptPubKey,
     spent |-> FALSE, spentTxId |-> Null, spentHeight |-> NoHeight]

getKey(utxo) == <<utxo.transactionId, utxo.outputIndex>>

markAsSpent(utxo, spendingTxId, spendingHeight) ==
    [utxo EXCEPT !.spent = TRUE, !.spentTxId = spendingTxId,
                 !.spentHeight = spendingHeight]

EmptyUTXOSet ==
    [utxos |-> {}, addressIndex |-> <<>>, spentUTXOs |-> {},
     totalSupply |-> 0, lastProcessedHeight |-> 0]

\* Map.set: replaces the record stored under the same key
MapSet(map, utxo) == {u \in map : getKey(u) # getKey(utxo)} \cup {utxo}

hasUTXO(S, transactionId, outputIndex) ==
    \E u \in S.utxos : getKey(u) = <<transactionId, outputIndex>>

\* UTXOSet.getUTXO; only used where hasUTXO holds (null otherwise)
getUTXO(S, transactionId, outputIndex) ==
    CHOOSE u \in S.utxos : getKey(u) = <<transactionId, outputIndex>>

IndexRemove(index, address, key) ==
    SelectSeq(index, LAMBDA e : ~(e.address = address /\ e.key = key))

IndexAdd(index, address, key) ==
    IF \E i \in 1..Len(index) : index[i].address = address /\ index[i].key = key
    THEN index
    ELSE Append(index, [address |-> address, key |-> key])

addUTXO(S, utxo) ==
    [S EXCEPT !.utxos = MapSet(S.utxos, utxo),
              !.addressIndex = IndexAdd(S.addressIndex, utxo.address, getKey(utxo)),
              !.totalSupply = S.totalSupply + utxo.amount]

\* UTXOSet.removeUTXO: [ok, set]
removeUTXO(S, transactionId, outputIndex, spendingTxId, spendingHeight) ==
    IF ~hasUTXO(S, transactionId, outputIndex)
    THEN [ok |-> FALSE, set |-> S]
    ELSE LET utxo == getUTXO(S, transactionId, outputIndex)
         IN IF utxo.spent
            THEN [ok |-> FALSE, set |-> S]
            ELSE [ok |-> TRUE,
                  set |-> [S EXCEPT
                      !.utxos = S.utxos \ {utxo},
                      !.addressIndex = IndexRemove(S.addressIndex, utxo.address, getKey(utxo)),
                      !.spentUTXOs = MapSet(S.spentUTXOs,
                                            markAsSpent(utxo, spendingTxId, spendingHeight)),
                      !.totalSupply = S.totalSupply - utxo.amount]]

RECURSIVE InsertByAmount(_, _)
\* stable ascending insertion: after every element whose amount is <= utxo's
InsertByAmount(sorted, utxo) ==
    IF sorted = <<>> THEN <<utxo>>
    ELSE IF Head(sorted).amount <= utxo.amount
         THEN <<Head(sorted)>> \o InsertByAmount(Tail(sorted), utxo)
         ELSE <<utxo>> \o sorted

RECURSIVE SortByAmount(_)
SortByAmount(s) ==
    IF s = <<>> THEN <<>>
    ELSE InsertByAmount(SortByAmount(SubSeq(s, 1, Len(s) - 1)), s[Len(s)])

RECURSIVE CollectUTXOs(_, _)
CollectUTXOs(S, entries) ==
    IF entries = <<>> THEN <<>>
    ELSE LET key == Head(entries).key
             rest == CollectUTXOs(S, Tail(entries))
         IN IF hasUTXO(S, key[1], key[2]) /\ ~getUTXO(S, key[1], key[2]).spent
            THEN <<getUTXO(S, key[1], key[2])>> \o rest
            ELSE rest

getUTXOsByAddress(S, address) ==
    SortByAmount(CollectUTXOs(S, SelectSeq(S.addressIndex, LAMBDA e : e.address = address)))

\* a loop without the break: every unspent output of the address is taken
GreedySelectAll(available, selected, totalAmount, needed) ==
    [utxos |-> available,
     totalAmount |-> SumSeq([i \in 1..Len(available) |-> available[i].amount])]

RECURSIVE GreedySelect(_, _, _, _)
\* the loop of selectUTXOsForPayment: push, add, break once the threshold is met
GreedySelect(available, selected, totalAmount, needed) ==
    IF available = <<>> THEN [utxos |-> selected, totalAmount |-> totalAmount]
    ELSE LET sel == Append(selected, Head(available))
             tot == totalAmount + Head(available).amount
         IN IF tot >= needed
            THEN [utxos |-> sel, totalAmount |-> tot]
            ELSE GreedySelect(Tail(available), sel, tot, needed)

\* the two throws and the return value of selectUTXOsForPayment, g being what
\* the loop selected (nothing when the address has no unspent output)
SelectionResult(g, targetAmount, estimatedFee) ==
    IF g.utxos = <<>> \/ g.totalAmount < targetAmount + estimatedFee
    THEN [ok |-> FALSE, utxos |-> <<>>, totalAmount |-> 0, fee |-> 0, change |-> 0]
    ELSE [ok |-> TRUE, utxos |-> g.utxos, totalAmount |-> g.totalAmount,
          fee |-> estimatedFee,
          change |-> g.totalAmount - targetAmount - estimatedFee]

\* selectUTXOsForPayment with a fee of one token whatever the amount
selectUTXOsForPaymentFlatFee(S, address, targetAmount, feePct) ==
    SelectionResult(GreedySelect(getUTXOsByAddress(S, address), <<>>, 0,
                                 targetAmount + Unit),
                    targetAmount, Unit)

\* UTXOSet.selectUTXOsForPayment: [ok, utxos, totalAmount, fee, change]
selectUTXOsForPayment(S, address, targetAmount, feePct) ==
    SelectionResult(GreedySelect(getUTXOsByAddress(S, address), <<>>, 0,
                                 targetAmount + (targetAmount * feePct) \div 100),
                    targetAmount, (targetAmount * feePct) \div 100)

Max(a, b) == IF a >= b THEN a ELSE b
Min(a, b) == IF a <= b THEN a ELSE b

RECURSIVE ProcessOutputs(_, _, _, _)
\* second loop of processTransaction: one addUTXO per output, from output i on
ProcessOutputs(S, tx, i, blockHeight) ==
    IF i > Len(tx.outputs) THEN S
    ELSE ProcessOutputs(
             addUTXO(S, UTXO(tx.id, i - 1, tx.outputs[i].address, tx.outputs[i].amount,
                             blockHeight, tx.outputs[i].scriptPubKey)),
             tx, i + 1, blockHeight)

\* processTransaction once every input is removed: the outputs, then
\* lastProcessedHeight
ProcessRest(S, tx, blockHeight) ==
    [ok |-> TRUE,
     set |-> [ProcessOutputs(S, tx, 1, blockHeight) EXCEPT
                !.lastProcessedHeight = Max(S.lastProcessedHeight, blockHeight)]]

RECURSIVE ProcessInputs(_, _, _, _)
RECURSIVE AfterRemove(_, _, _, _)
\* first loop of processTransaction, from the listed inputs on
ProcessInputs(S, inputs, tx, blockHeight) ==
    IF inputs = <<>> THEN ProcessRest(S, tx, blockHeight)
    ELSE IF Head(inputs).transactionId = ZeroId
         THEN ProcessInputs(S, Tail(inputs), tx, blockHeight)
         ELSE AfterRemove(removeUTXO(S, Head(inputs).transactionId,
                                     Head(inputs).outputIndex, tx.id, blockHeight),
                          Tail(inputs), tx, blockHeight)

\* if (!removed) throw: the loop stops at the first input that cannot be removed
AfterRemove(removed, inputs, tx, blockHeight) ==
    IF removed.ok THEN ProcessInputs(removed.set, inputs, tx, blockHeight)
    ELSE removed

\* UTXOSet.processTransaction: [ok, set]; ok = FALSE is the thrown Error, and set
\* is the UTXOSet object as the throw leaves it
processTransaction(S, tx, blockHeight) == ProcessInputs(S, tx.inputs, tx, blockHeight)

(***************************************************************************)
(* Transaction (Transaction.js).                                           *)
(***************************************************************************)
TransactionInput(transactionId, outputIndex, scriptSig, publicKey) ==
    [transactionId |-> transactionId, outputIndex |-> outputIndex,
     scriptSig |-> scriptSig, publicKey |-> publicKey]

TransactionOutput(address, amount, scriptPubKey) ==
    [address |-> address, amount |-> amount, scriptPubKey |-> scriptPubKey]

\* sha256(JSON.stringify({version, inputs, outputs, lockTime}))
TransactionId(inputs, outputs) == <<1, inputs, outputs, 0>>

\* new Transaction(inputs, outputs): the id is computed by the constructor
Transaction(inputs, outputs) ==
    [id |-> TransactionId(inputs, outputs), inputs |-> inputs,
     outputs |-> outputs, fee |-> 0]

updateTransactionId(tx) == [tx EXCEPT !.id = TransactionId(tx.inputs, tx.outputs)]

isCoinbase(tx) ==
    /\ Len(tx.inputs) = 1
    /\ tx.inputs[1].transactionId = ZeroId
    /\ tx.inputs[1].outputIndex = CoinbaseIndex

RECURSIVE getInputAmount(_, _)
\* Transaction.getInputAmount over the given inputs: one term per input
getInputAmount(inputs, S) ==
    IF inputs = <<>> THEN 0
    ELSE LET input == Head(inputs)
             rest == getInputAmount(Tail(inputs), S)
         IN IF input.transactionId = ZeroId THEN rest
            ELSE IF hasUTXO(S, input.transactionId, input.outputIndex)
                 THEN getUTXO(S, input.transactionId, input.outputIndex).amount + rest
                 ELSE rest

getOutputAmount(tx) == SumSeq([i \in 1..Len(tx.outputs) |-> tx.outputs[i].amount])

\* Transaction.validateScript; inputIndex is the 0-based position of the input
validateScript(input, utxo, inputIndex) ==
    IF input.scriptSig = CustomExchange THEN TRUE
    ELSE IF input.scriptSig = <<>> \/ input.publicKey = "" THEN FALSE
    ELSE IF utxo.scriptPubKey = "" THEN FALSE
    ELSE IF generateAddress(input.publicKey, utxo.address) # utxo.address THEN FALSE
    ELSE IF utxo.scriptPubKey # utxo.address THEN FALSE
    ELSE cryptoVerify(SignatureData(utxo.transactionId, inputIndex, utxo.address, utxo.amount),
                      input.scriptSig, input.publicKey)

RECURSIVE ValidateInputs(_, _, _, _)
\* the per-input loop of Transaction.isValid, from input i on, and the
\* comparison of amounts that follows it: the first failure
ValidateInputs(tx, S, i, skipSignatureVerification) ==
    IF i > Len(tx.inputs)
    THEN IF getInputAmount(tx.inputs, S) < getOutputAmount(tx) THEN "insufficient"
         ELSE "ok"
    ELSE IF ~hasUTXO(S, tx.inputs[i].transactionId, tx.inputs[i].outputIndex)
         THEN "utxoMissing"
    ELSE IF getUTXO(S, tx.inputs[i].transactionId, tx.inputs[i].outputIndex).spent
         THEN "utxoSpent"
    ELSE IF /\ ~skipSignatureVerification
            /\ ~validateScript(tx.inputs[i],
                               getUTXO(S, tx.inputs[i].transactionId,
                                       tx.inputs[i].outputIndex), i - 1)
         THEN "script"
    ELSE ValidateInputs(tx, S, i + 1, skipSignatureVerification)

\* Transaction.isValid: "ok" or the reason of the rejection
TransactionIsValid(tx, S, skipSignatureVerification) ==
    IF isCoinbase(tx) THEN "ok"
    ELSE IF Len(tx.inputs) = 0 THEN "noInputs"
    ELSE IF Len(tx.outputs) = 0 THEN "noOutputs"
    ELSE ValidateInputs(tx, S, 1, skipSignatureVerification)

\* TransactionInput.createCoinbase: data = `${blockHeight}${extraNonce}${Date.now()}`
InputCreateCoinbase(blockHeight, extraNonce, time) ==
    TransactionInput(ZeroId, CoinbaseIndex, <<blockHeight, extraNonce, time>>, "")

\* Transaction.createCoinbase
createCoinbase(toAddress, blockHeight, reward, extraData, time) ==
    Transaction(<<InputCreateCoinbase(blockHeight, extraData, time)>>,
                <<TransactionOutput(toAddress, reward, "")>>)

\* Transaction.sign: every input is signed (or marked custom_exchange when no
\* private key is given), then the id is recomputed.  [ok, tx]
RECURSIVE SignInputs(_, _, _, _)
SignInputs(inputs, i, privateKey, S) ==
    IF i > Len(inputs) THEN inputs
    ELSE LET input == inputs[i]
             utxo == getUTXO(S, input.transactionId, input.outputIndex)
             signed == IF privateKey # ""
                       THEN [input EXCEPT
                               !.scriptSig = cryptoSign(
                                   SignatureData(input.transactionId, i - 1,
                                                 utxo.address, utxo.amount), privateKey),
                               !.publicKey = privateKey]
                       ELSE [input EXCEPT !.scriptSig = CustomExchange]
         IN SignInputs([inputs EXCEPT ![i] = signed], i + 1, privateKey, S)

sign(tx, privateKey, S) ==
    IF isCoinbase(tx) THEN [ok |-> TRUE, tx |-> tx]
    ELSE IF \E i \in 1..Len(tx.inputs) :
                ~hasUTXO(S, tx.inputs[i].transactionId, tx.inputs[i].outputIndex)
         THEN [ok |-> FALSE, tx |-> tx]
         ELSE [ok |-> TRUE,
               tx |-> updateTransactionId(
                        [tx EXCEPT !.inputs = SignInputs(tx.inputs, 1, privateKey, S)])]

\* createAndSignTransfer after the selection sel: inputs, outputs, fee, sign
BuildTransfer(sel, fromAddress, toAddress, amount, publicKey, S, privateKey) ==
    IF ~sel.ok THEN [ok |-> FALSE, tx |-> Transaction(<<>>, <<>>)]
    ELSE sign([Transaction(
                   [i \in 1..Len(sel.utxos) |->
                      TransactionInput(sel.utxos[i].transactionId,
                                       sel.utxos[i].outputIndex, <<>>, publicKey)],
                   <<TransactionOutput(toAddress, amount, toAddress)>> \o
                   (IF sel.change > 0
                    THEN <<TransactionOutput(fromAddress, sel.change, fromAddress)>>
                    ELSE <<>>))
                 EXCEPT !.fee = sel.fee],
              privateKey, S)

\* Transaction.createAndSignTransfer: [ok, tx]; ok = FALSE is the thrown Error
createAndSignTransfer(fromAddress, toAddress, amount, publicKey, S, privateKey) ==
    BuildTransfer(selectUTXOsForPayment(S, fromAddress, amount, feePercentage),
                  fromAddress, toAddress, amount, publicKey, S, privateKey)

(***************************************************************************)
(* BlockHeader and Block (Block.js).  Block.size is not modelled: every    *)
(* block of the model is far below the 1 MB limit.                         *)
(***************************************************************************)
ZeroHash == <<>>

\* BlockHeader.calculateHash: sha256 of the joined header fields
calculateHash(header) ==
    <<1, header.previousBlockHash, header.merkleRoot, header.timestamp,
      header.difficulty, header.nonce, header.height>>

RECURSIVE TrailingZeroBits(_)
TrailingZeroBits(n) == IF n % 2 = 1 THEN 0 ELSE 1 + TrailingZeroBits(n \div 2)

\* number of leading '0' hex digits of a header digest: a fixed function of the
\* hashed fields under which each further zero digit halves the matching nonces
LeadingZeros(hash) ==
    TrailingZeroBits(hash[4] + 3 * hash[5] + hash[6] + 5 * hash[7] + 1)

\* hash.startsWith('0'.repeat(difficulty))
startsWithZeros(hash, d) == hash # <<>> /\ LeadingZeros(hash) >= d

\* CryptoUtils.isValidHash(hash, difficulty), first definition (CryptoUtils.js 76-79)
isValidHashPow(hash, d) == startsWithZeros(hash, d)

\* CryptoUtils.isValidHash(hash), second definition of the same static method
\* (CryptoUtils.js 311-315): the one in force; a 64-digit lower-case hex string
isValidHash(hash, d) == hash # <<>> /\ Len(hash) = 7

BlockHeader(previousBlockHash, merkleRoot, timestamp, d, nonce, height) ==
    [previousBlockHash |-> previousBlockHash, merkleRoot |-> merkleRoot,
     timestamp |-> timestamp, difficulty |-> d, nonce |-> nonce, height |-> height]

\* Block.calculateMerkleRoot
calculateMerkleRoot(transactions) ==
    IF Len(transactions) = 0 THEN Sha256Empty
    ELSE cryptoCalculateMerkleRoot([i \in 1..Len(transactions) |-> transactions[i].id])

updateHash(block) == [block EXCEPT !.hash = calculateHash(block.header)]

\* new Block(transactions, previousBlockHash, height) at clock reading time
Block(transactions, previousBlockHash, height, time) ==
    updateHash([header |-> BlockHeader(previousBlockHash, calculateMerkleRoot(transactions),
                                       time, 1, 0, height),
                transactions |-> transactions,
                hash |-> ZeroHash])

RECURSIVE MineLoop(_, _)
\* while (!this.hash.startsWith(target)) { nonce++; updateHash() }
MineLoop(block, d) ==
    IF startsWithZeros(block.hash, d) THEN block
    ELSE MineLoop(updateHash([block EXCEPT !.header.nonce = block.header.nonce + 1]), d)

\* Block.mine(difficulty): the loop tests the hash the block had before the header
\* was given the difficulty and nonce 0
mine(block, d) ==
    MineLoop([block EXCEPT !.header.difficulty = d, !.header.nonce = 0], d)

\* BlockHeader.isValid without the comparison of timestamps
BlockHeaderIsValidNoTimestamp(header, previousHeader, time) ==
    IF header.height < 0 THEN "incomplete"
    ELSE IF header.timestamp > time + maxFutureWindow THEN "future"
    ELSE IF header.height # previousHeader.height + 1 THEN "height"
    ELSE IF header.previousBlockHash # calculateHash(previousHeader) THEN "previousHash"
    ELSE "ok"

\* BlockHeader.isValid(previousHeader); timestamps of the model are never the
\* falsy 0 of the absolute clock and Merkle roots are never the empty string
BlockHeaderIsValid(header, previousHeader, time) ==
    IF header.height < 0 THEN "incomplete"
    ELSE IF header.timestamp > time + maxFutureWindow THEN "future"
    ELSE IF header.height # previousHeader.height + 1 THEN "height"
    ELSE IF header.previousBlockHash # calculateHash(previousHeader) THEN "previousHash"
    ELSE IF header.timestamp <= previousHeader.timestamp THEN "timestamp"
    ELSE "ok"

\* Block.isCoinbaseTransaction
isCoinbaseTransaction(tx) ==
    /\ Len(tx.inputs) = 1
    /\ tx.inputs[1].transactionId = ZeroId
    /\ tx.inputs[1].outputIndex = CoinbaseIndex

RECURSIVE ValidateBlockTxs(_, _, _)
\* the loop over transactions 1.. of Block.isValid (0-based position i - 1)
ValidateBlockTxs(block, S, i) ==
    IF i > Len(block.transactions) THEN "ok"
    ELSE IF isCoinbaseTransaction(block.transactions[i]) THEN "secondCoinbase"
    ELSE IF TransactionIsValid(block.transactions[i], S, TRUE) # "ok" THEN "transaction"
    ELSE ValidateBlockTxs(block, S, i + 1)

\* the first failure of two checks made one after the other
FirstFailure(first, second) == IF first # "ok" THEN first ELSE second

\* Block.isValid after the header check
BlockBodyIsValid(block, S) ==
    IF block.hash # calculateHash(block.header) THEN "hash"
    ELSE IF ~isValidHash(block.hash, block.header.difficulty) THEN "proofOfWork"
    ELSE IF block.header.merkleRoot # calculateMerkleRoot(block.transactions) THEN "merkle"
    ELSE IF Len(block.transactions) > maxTransactions THEN "tooManyTransactions"
    ELSE IF Len(block.transactions) > 0
         THEN IF ~isCoinbaseTransaction(block.transactions[1]) THEN "firstNotCoinbase"
              ELSE ValidateBlockTxs(block, S, 2)
         ELSE "ok"

\* Block.isValid(previousBlock, utxoSet): "ok" or the reason
BlockIsValid(block, previousBlock, S, time) ==
    FirstFailure(BlockHeaderIsValid(block.header, previousBlock.header, time),
                 BlockBodyIsValid(block, S))

\* Block.createGenesisBlock: built at boot time, then stamped with the fixed time
BlockCreateGenesisBlock(initialTransactions, time) ==
    updateHash([Block(initialTransactions, ZeroHash, 0, time) EXCEPT
                  !.header.timestamp = GenesisTime,
                  !.header.difficulty = 1,
                  !.header.nonce = 0])

(***************************************************************************)
(* Blockchain (Blockchain.js).                                             *)
(***************************************************************************)
\* a coinbase whose output is given scriptPubKey = address after the constructor
\* has computed the id (createGenesisTransactions 91-103, createBlock 331-342)
CoinbaseWithScript(toAddress, blockHeight, reward, extraData, time) ==
    LET tx == createCoinbase(toAddress, blockHeight, reward, extraData, time)
    IN [tx EXCEPT !.outputs[1].scriptPubKey = toAddress]

createGenesisTransactions(toAddress, time) ==
    <<CoinbaseWithScript(toAddress, 0, minerInitialAmount, <<"genesis">>, time)>>

RECURSIVE ProcessAll(_, _, _)
RECURSIVE AfterProcess(_, _, _)
\* for (const transaction of block.transactions) processTransaction(...): [ok, set]
ProcessAll(S, transactions, blockHeight) ==
    IF transactions = <<>> THEN [ok |-> TRUE, set |-> S]
    ELSE AfterProcess(processTransaction(S, Head(transactions), blockHeight),
                      Tail(transactions), blockHeight)

\* a throw of processTransaction ends the loop
AfterProcess(processed, transactions, blockHeight) ==
    IF processed.ok THEN ProcessAll(processed.set, transactions, blockHeight)
    ELSE processed

BootTime == GenesisTime + 1

GenesisBlock == BlockCreateGenesisBlock(
                    createGenesisTransactions(initialMinerAddress, BootTime), BootTime)

getHeight(c) == Len(c) - 1
getLatestBlock(c) == c[Len(c)]

getBlockReward(height) == baseBlockReward

\* the non-coinbase outpoints a transaction names as inputs
InputKeys(tx) ==
    {<<tx.inputs[i].transactionId, tx.inputs[i].outputIndex>> :
        i \in {j \in 1..Len(tx.inputs) : tx.inputs[j].transactionId # ZeroId}}

\* checkDoubleSpending without the loop over the mempool
checkDoubleSpendingWithinOnly(tx, pool) ==
    IF \E i, j \in 1..Len(tx.inputs) :
          /\ i < j
          /\ tx.inputs[i].transactionId # ZeroId
          /\ tx.inputs[i].transactionId = tx.inputs[j].transactionId
          /\ tx.inputs[i].outputIndex = tx.inputs[j].outputIndex
    THEN "doubleSpendInTransaction"
    ELSE "ok"

\* Blockchain.checkDoubleSpending: "ok" or the thrown error
checkDoubleSpending(tx, pool) ==
    IF \E i, j \in 1..Len(tx.inputs) :
          /\ i < j
          /\ tx.inputs[i].transactionId # ZeroId
          /\ tx.inputs[i].transactionId = tx.inputs[j].transactionId
          /\ tx.inputs[i].outputIndex = tx.inputs[j].outputIndex
    THEN "doubleSpendInTransaction"
    ELSE IF \E k \in 1..Len(pool) : InputKeys(pool[k]) \cap InputKeys(tx) # {}
         THEN "doubleSpend"
         ELSE "ok"

mempoolHas(pool, id) == \E k \in 1..Len(pool) : pool[k].id = id

\* what addTransactionToMempool returns when its checks end with failure
MempoolResult(failure, tx, pool) ==
    IF failure # "ok"
    THEN [success |-> FALSE, error |-> failure, mempool |-> pool]
    ELSE [success |-> TRUE, error |-> "", mempool |-> Append(pool, tx)]

\* addTransactionToMempool that stores a transaction again under an id it holds
addTransactionToMempoolStoresAgain(tx, S, pool) ==
    MempoolResult(
        FirstFailure(TransactionIsValid(tx, S, FALSE),
                     IF mempoolHas(pool, tx.id) THEN "ok"
                     ELSE checkDoubleSpending(tx, pool)),
        tx, pool)

\* Blockchain.addTransactionToMempool: [success, error, mempool]
addTransactionToMempool(tx, S, pool) ==
    MempoolResult(
        FirstFailure(TransactionIsValid(tx, S, FALSE),
                     FirstFailure(IF mempoolHas(pool, tx.id) THEN "duplicate" ELSE "ok",
                                  checkDoubleSpending(tx, pool))),
        tx, pool)

RECURSIVE InsertByFee(_, _)
\* stable descending insertion: after every element whose fee is >= tx's
InsertByFee(sorted, tx) ==
    IF sorted = <<>> THEN <<tx>>
    ELSE IF Head(sorted).fee >= tx.fee
         THEN <<Head(sorted)>> \o InsertByFee(Tail(sorted), tx)
         ELSE <<tx>> \o sorted

RECURSIVE SortByFee(_)
SortByFee(s) ==
    IF s = <<>> THEN <<>>
    ELSE InsertByFee(SortByFee(SubSeq(s, 1, Len(s) - 1)), s[Len(s)])

\* Blockchain.selectTransactionsForBlock: [selected, mempool]
selectTransactionsForBlock(S, pool) ==
    LET transactions == SortByFee(pool)
        valid(tx) == TransactionIsValid(tx, S, TRUE) = "ok"
    IN [selected |-> SelectSeq(transactions, valid),
        mempool |-> SelectSeq(pool, valid)]

\* createBlock after the selection sel: fees, coinbase, new Block
AssembleBlock(sel, latestBlock, toAddress, time) ==
    [block |->
        Block(<<CoinbaseWithScript(
                  toAddress, latestBlock.header.height + 1,
                  getBlockReward(latestBlock.header.height + 1)
                  + SumSeq([i \in 1..Len(sel.selected) |-> sel.selected[i].fee]),
                  <<latestBlock.header.height + 1, toAddress>>, time)>>
              \o sel.selected,
              latestBlock.hash, latestBlock.header.height + 1, time),
     mempool |-> sel.mempool]

\* Blockchain.createBlock: [block, mempool]
createBlock(c, S, pool, toAddress, time) ==
    AssembleBlock(selectTransactionsForBlock(S, pool), getLatestBlock(c), toAddress, time)

\* adjustDifficulty without the final cap
adjustDifficultyNoCap(c, d) ==
    LET currentHeight == getHeight(c)
    IN IF currentHeight < difficultyAdjustmentInterval THEN d
       ELSE LET expectedTime == targetBlockTime * difficultyAdjustmentInterval
                actualTime == getLatestBlock(c).header.timestamp
                              - c[currentHeight - difficultyAdjustmentInterval + 1].header.timestamp
            IN IF 4 * actualTime < expectedTime THEN Min(d + 2, d * 4)
               ELSE IF 2 * actualTime < expectedTime THEN Min(d + 1, d * 2)
               ELSE IF actualTime > 4 * expectedTime THEN Max(1, d \div 4)
               ELSE IF actualTime > 2 * expectedTime THEN Max(1, d \div 2)
               ELSE d

\* adjustDifficulty without the two branches that raise the difficulty
adjustDifficultyNeverRaises(c, d) ==
    LET currentHeight == getHeight(c)
    IN IF currentHeight < difficultyAdjustmentInterval THEN d
       ELSE LET expectedTime == targetBlockTime * difficultyAdjustmentInterval
                actualTime == getLatestBlock(c).header.timestamp
                              - c[currentHeight - difficultyAdjustmentInterval + 1].header.timestamp
                adjusted ==
                    IF actualTime > 4 * expectedTime THEN Max(1, d \div 4)
                    ELSE IF actualTime > 2 * expectedTime THEN Max(1, d \div 2)
                    ELSE d
            IN Min(adjusted, maxDifficulty)

\* Blockchain.adjustDifficulty: the difficulty after the call
adjustDifficulty(c, d) ==
    LET currentHeight == getHeight(c)
    IN IF currentHeight < difficultyAdjustmentInterval THEN d
       ELSE LET expectedTime == targetBlockTime * difficultyAdjustmentInterval
                actualTime == getLatestBlock(c).header.timestamp
                              - c[currentHeight - difficultyAdjustmentInterval + 1].header.timestamp
                adjusted ==
                    IF 4 * actualTime < expectedTime THEN Min(d + 2, d * 4)
                    ELSE IF 2 * actualTime < expectedTime THEN Min(d + 1, d * 2)
                    ELSE IF actualTime > 4 * expectedTime THEN Max(1, d \div 4)
                    ELSE IF actualTime > 2 * expectedTime THEN Max(1, d \div 2)
                    ELSE d
            IN Min(adjusted, maxDifficulty)

\* addBlock after the loop over the block's transactions
AppendBlock(applied, block, c) ==
    IF ~applied.ok
    THEN [success |-> FALSE, reason |-> "utxoUpdate", chain |-> c, set |-> applied.set]
    ELSE [success |-> TRUE, reason |-> "", chain |-> Append(c, block),
          set |-> applied.set]

\* addBlock after block.isValid
ApplyBlock(validation, block, c, S) ==
    IF validation # "ok"
    THEN [success |-> FALSE, reason |-> validation, chain |-> c, set |-> S]
    ELSE AppendBlock(ProcessAll(S, block.transactions, block.header.height), block, c)

\* addBlock that applies the transactions before it validates the block
addBlockAppliesFirst(block, c, S, time) ==
    [ApplyBlock(BlockIsValid(block, getLatestBlock(c), S, time), block, c, S)
        EXCEPT !.set = IF BlockIsValid(block, getLatestBlock(c), S, time) = "ok"
                       THEN @
                       ELSE ProcessAll(S, block.transactions, block.header.height).set]

\* Blockchain.addBlock: [success, reason, chain, set]
addBlock(block, c, S, time) ==
    ApplyBlock(BlockIsValid(block, getLatestBlock(c), S, time), block, c, S)

RemoveIds(pool, ids) == SelectSeq(pool, LAMBDA tx : tx.id \notin ids)

\* mineBlock after addBlock: the block's transactions leave the mempool on success
MineResult(addResult, block, pool, d) ==
    [success |-> addResult.success, error |-> addResult.reason,
     chain |-> addResult.chain, set |-> addResult.set,
     mempool |-> IF addResult.success
                 THEN RemoveIds(pool, {block.transactions[i].id :
                                          i \in 2..Len(block.transactions)})
                 ELSE pool,
     difficulty |-> d]

\* mineBlock after block.mine
AddMined(block, c, S, pool, d, time) ==
    MineResult(addBlock(block, c, S, time), block, pool, d)

\* mineBlock after createBlock
MineCreated(created, c, S, d, time) ==
    AddMined(mine(created.block, d), c, S, created.mempool, d, time)

\* mineBlock after adjustDifficulty
MineAdjusted(c, S, pool, d, toAddress, time) ==
    MineCreated(createBlock(c, S, pool, toAddress, time), c, S, d, time)

\* Blockchain.mineBlock: [success, error, chain, set, mempool, difficulty]
mineBlock(c, S, pool, d, toAddress, time) ==
    MineAdjusted(c, S, pool, adjustDifficulty(c, d), toAddress, time)

(***************************************************************************)
(* What callers hand to the public methods.  A transaction arrives through *)
(* Transaction.deserialize (API body or peer message) with any inputs,     *)
(* scripts, outputs and fee field its author chose; a block arrives as any *)
(* Block object.                                                           *)
(***************************************************************************)
\* an input naming utxo, at 0-based position inputIndex, with the script its
\* author chose
CraftInput(utxo, inputIndex, mode) ==
    LET owner == KeyOfAddress(utxo.address)
        other == CHOOSE k \in Keys : k # owner
        data == SignatureData(utxo.transactionId, inputIndex, utxo.address, utxo.amount)
    IN CASE mode = "owner" ->
              TransactionInput(utxo.transactionId, utxo.outputIndex,
                               cryptoSign(data, owner), owner)
         [] mode = "otherKey" ->
              TransactionInput(utxo.transactionId, utxo.outputIndex,
                               cryptoSign(data, other), other)
         [] mode = "forged" ->
              TransactionInput(utxo.transactionId, utxo.outputIndex,
                               cryptoSign(data, other), owner)
         [] mode = "custom" ->
              TransactionInput(utxo.transactionId, utxo.outputIndex, CustomExchange, owner)
         [] OTHER ->
              TransactionInput(utxo.transactionId, utxo.outputIndex, <<>>, owner)

Recipient(address) == IF address = "oxB" THEN "oxA" ELSE "oxB"

\* a transaction spending the listed outputs, paying amount to one recipient
\* (no output when amount = 0) and carrying the fee field fee
CraftTransaction(spent, mode, amount, fee) ==
    LET inputs == [i \in 1..Len(spent) |-> CraftInput(spent[i], i - 1, mode)]
        to == Recipient(spent[1].address)
        outputs == IF amount > 0 THEN <<TransactionOutput(to, amount, to)>> ELSE <<>>
    IN [Transaction(inputs, outputs) EXCEPT !.fee = fee]

GhostUTXO == UTXO(<<"ghost">>, 0, "oxA", 10 * Unit, 0, "oxA")

TotalAmount(spent) == SumSeq([i \in 1..Len(spent) |-> spent[i].amount])

\* the honest shape over every list of unspent outputs, and for a single output
\* one deviation at a time: script, amount, fee field, missing or spent input
CandidateTransactions(S) ==
    {CraftTransaction(spent, "owner", TotalAmount(spent) - Unit, Unit) :
        spent \in SeqsUpTo(S.utxos, MaxInputs) \ {<<>>}}
    \cup {CraftTransaction(<<u>>, mode, u.amount - Unit, Unit) :
            u \in S.utxos, mode \in {"otherKey", "forged", "custom", "unsigned"}}
    \cup {CraftTransaction(<<u>>, "owner", u.amount, 0) : u \in S.utxos}
    \cup {CraftTransaction(<<u>>, "owner", u.amount + Unit, 0) : u \in S.utxos}
    \cup {CraftTransaction(<<u>>, "owner", u.amount - Unit, 5 * Unit) : u \in S.utxos}
    \cup {CraftTransaction(<<u>>, "owner", 0, 0) : u \in S.utxos}
    \cup {CraftTransaction(<<u>>, "owner", u.amount - Unit, Unit) :
            u \in S.spentUTXOs \cup {GhostUTXO}}

\* any Block object: the caller chooses every header field and the stored hash
ForeignBlock(transactions, previousBlockHash, merkleRoot, timestamp, d, nonce, height) ==
    updateHash([header |-> BlockHeader(previousBlockHash, merkleRoot, timestamp, d,
                                       nonce, height),
                transactions |-> transactions,
                hash |-> ZeroHash])

\* a block built on the tip by another miner, who searches the nonce from the
\* hash of the header that carries the difficulty
MinedBlock(transactions, c, d, timestamp) ==
    MineLoop(updateHash([Block(transactions, getLatestBlock(c).hash,
                               getLatestBlock(c).header.height + 1, timestamp)
                           EXCEPT !.header.difficulty = d, !.header.nonce = 0]), d)

foreignMinerAddress == "oxB"

\* a coinbase made by the author of a foreign block
ForeignCoinbase(height, amount, timestamp) ==
    CoinbaseWithScript(foreignMinerAddress, height, amount,
                       <<height, foreignMinerAddress>>, timestamp)

\* what a block's author can put after the coinbase: spends of unspent outputs
PayTransactions(S) ==
    {CraftTransaction(<<u>>, "owner", u.amount - Unit, Unit) : u \in S.utxos}

\* transaction lists of foreign blocks: a coinbase paying reward + fees followed
\* by spends (the same spend twice included); then, alone, a coinbase paying
\* more, a coinbase copied from the chain, no transaction at all, a spend
\* without coinbase, and a coinbase twice
CandidateBodies(c, S, timestamp) ==
    LET height == getLatestBlock(c).header.height + 1
        reward == getBlockReward(height)
    IN {<<ForeignCoinbase(height, reward + Len(transactions) * Unit, timestamp)>>
            \o transactions :
            transactions \in SeqsUpTo(PayTransactions(S), MaxBlockTxs)}
       \cup {<<ForeignCoinbase(height, reward + 5 * Unit, timestamp)>>}
       \cup {<<c[i].transactions[1]>> :
               i \in {j \in 1..Len(c) : c[j].transactions # <<>>}}
       \cup {<<>>}
       \cup {<<tx>> : tx \in PayTransactions(S)}
       \cup {<<ForeignCoinbase(height, reward, timestamp),
               ForeignCoinbase(height, reward, timestamp)>>}

\* blocks that deviate from a mined one in one header field or in the stored hash
DeviantBlocks(c, d, timestamp, time) ==
    LET latest == getLatestBlock(c)
        height == latest.header.height + 1
        body == <<ForeignCoinbase(height, getBlockReward(height), timestamp)>>
        root == calculateMerkleRoot(body)
    IN {ForeignBlock(body, latest.hash, root, timestamp, d, 0, height),
        ForeignBlock(body, latest.hash, root, timestamp, 0, 0, height),
        ForeignBlock(body, latest.hash, root, timestamp, d, 0, height + 1),
        ForeignBlock(body, ZeroHash, root, timestamp, d, 0, height),
        ForeignBlock(body, latest.hash, root, latest.header.timestamp, d, 0, height),
        ForeignBlock(body, latest.hash, root, time + maxFutureWindow + 1, d, 0, height),
        ForeignBlock(body, latest.hash, Sha256Empty, timestamp, d, 0, height),
        [MinedBlock(body, c, d, timestamp) EXCEPT !.hash = latest.hash]}

\* the blocks offered to addBlock at clock reading time; their authors stamp
\* them one millisecond after the tip
CandidateBlocks(c, S, d, time) ==
    LET timestamp == getLatestBlock(c).header.timestamp + 1
    IN {MinedBlock(body, c, d, timestamp) : body \in CandidateBodies(c, S, timestamp)}
       \cup DeviantBlocks(c, d, timestamp, time)

\* records the UTXOSet holds, unspent and spent
UtxoRecords(S) == Cardinality(S.utxos) + Cardinality(S.spentUTXOs)

TransferAmounts == {4 * Unit}

(***************************************************************************)
(* The state machine.                                                      *)
(***************************************************************************)
\* arg: the outpoints named by the transaction the call was given
Result(op, success, error, arg) ==
    [op |-> op, success |-> success, error |-> error, arg |-> arg]

(***************************************************************************)
(* Serialization (BlockHeader / Block / Transaction / UTXO / UTXOSet /     *)
(* Blockchain serialize and deserialize).  A decimal string is the number  *)
(* tagged "str" and an ISO date string the millisecond count tagged "iso": *)
(* toString / parseFloat / parseInt and toISOString / Date.getTime give    *)
(* back the numbers of the model exactly.                                  *)
(***************************************************************************)
toString(n) == <<"str", n>>
parseNumber(text) == text[2]
toISOString(timestamp) == <<"iso", timestamp>>
parseDate(text) == text[2]

\* BlockHeader.serialize: difficulty and nonce are not among the fields written
BlockHeaderSerialize(header) ==
    [previous_block_hash |-> header.previousBlockHash,
     merkle_root |-> header.merkleRoot,
     time |-> toISOString(header.timestamp),
     height |-> toString(header.height)]

\* BlockHeader.deserialize: new BlockHeader() (difficulty 1, nonce 0), then the
\* fields of data
BlockHeaderDeserialize(data) ==
    BlockHeader(data.previous_block_hash, data.merkle_root, parseDate(data.time),
                1, 0, parseNumber(data.height))

TransactionInputSerialize(input) ==
    [transaction_id |-> input.transactionId, output_index |-> input.outputIndex,
     script_sig |-> input.scriptSig, public_key |-> input.publicKey]

TransactionInputDeserialize(data) ==
    TransactionInput(data.transaction_id, data.output_index, data.script_sig,
                     data.public_key)

TransactionOutputSerialize(output) ==
    [address |-> output.address, amount |-> toString(output.amount),
     script_pub_key |-> output.scriptPubKey]

TransactionOutputDeserialize(data) ==
    TransactionOutput(data.address, parseNumber(data.amount), data.script_pub_key)

TransactionSerialize(tx) ==
    [id |-> tx.id,
     inputs |-> [i \in 1..Len(tx.inputs) |-> TransactionInputSerialize(tx.inputs[i])],
     outputs |-> [i \in 1..Len(tx.outputs) |-> TransactionOutputSerialize(tx.outputs[i])],
     fee |-> tx.fee]

\* Transaction.deserialize: the constructor's id and fee are replaced by data's
TransactionDeserialize(data) ==
    [Transaction([i \in 1..Len(data.inputs) |-> TransactionInputDeserialize(data.inputs[i])],
                 [i \in 1..Len(data.outputs) |->
                     TransactionOutputDeserialize(data.outputs[i])])
        EXCEPT !.id = data.id, !.fee = data.fee]

BlockSerialize(block) ==
    [header |-> BlockHeaderSerialize(block.header),
     txs |-> [i \in 1..Len(block.transactions) |->
                 TransactionSerialize(block.transactions[i])]]

\* the block after updateMerkleRoot() and updateHash()
Recomputed(header, transactions) ==
    updateHash([header |-> [header EXCEPT !.merkleRoot = calculateMerkleRoot(transactions)],
                transactions |-> transactions,
                hash |-> ZeroHash])

\* Block.deserialize(data, Transaction)
BlockDeserialize(data) ==
    Recomputed(BlockHeaderDeserialize(data.header),
               [i \in 1..Len(data.txs) |-> TransactionDeserialize(data.txs[i])])

UTXOSerialize(utxo) ==
    [transaction_id |-> utxo.transactionId, output_index |-> utxo.outputIndex,
     address |-> utxo.address, amount |-> toString(utxo.amount),
     block_height |-> utxo.blockHeight, script_pub_key |-> utxo.scriptPubKey,
     spent |-> utxo.spent, spent_tx_id |-> utxo.spentTxId,
     spent_height |-> utxo.spentHeight]

\* UTXO.deserialize; spent_height || null turns height 0 into null
UTXODeserialize(data) ==
    [UTXO(data.transaction_id, data.output_index, data.address,
          parseNumber(data.amount), data.block_height, data.script_pub_key)
        EXCEPT !.spent = data.spent, !.spentTxId = data.spent_tx_id,
               !.spentHeight = IF data.spent_height = 0 THEN NoHeight
                               ELSE data.spent_height]

UTXOSetSerialize(S) ==
    [utxos |-> {UTXOSerialize(u) : u \in S.utxos},
     spent_utxos |-> {UTXOSerialize(u) : u \in S.spentUTXOs},
     total_supply |-> toString(S.totalSupply),
     last_processed_height |-> S.lastProcessedHeight]

RECURSIVE AddAll(_, _)
\* for (const utxoData of data.utxos) utxoSet.addUTXO(UTXO.deserialize(utxoData))
AddAll(S, utxosData) ==
    IF utxosData = {} THEN S
    ELSE AddAll(addUTXO(S, UTXODeserialize(CHOOSE d \in utxosData : TRUE)),
                utxosData \ {CHOOSE d \in utxosData : TRUE})

\* UTXOSet.deserialize: the stored total replaces the one addUTXO summed up
UTXOSetDeserialize(data) ==
    [AddAll(EmptyUTXOSet, data.utxos)
        EXCEPT !.spentUTXOs = {UTXODeserialize(d) : d \in data.spent_utxos},
               !.totalSupply = parseNumber(data.total_supply),
               !.lastProcessedHeight = data.last_processed_height]

\* Blockchain.serialize
BlockchainSerialize(c, S, d) ==
    [blocks |-> [i \in 1..Len(c) |-> BlockSerialize(c[i])],
     utxo_set |-> UTXOSetSerialize(S),
     difficulty |-> d]

\* Blockchain.deserialize: a new Blockchain whose chain and UTXO set are
\* replaced by the restored ones
BlockchainDeserialize(data) ==
    [chain |-> [i \in 1..Len(data.blocks) |-> BlockDeserialize(data.blocks[i])],
     set |-> UTXOSetDeserialize(data.utxo_set),
     difficulty |-> IF data.difficulty = 0 THEN initialDifficulty ELSE data.difficulty]

(***************************************************************************)
(* P2PNetwork.  sockets: the keys of this.sockets; written: what was       *)
(* written to which socket; message: the last object given to              *)
(* handleMessage, from: the peerKey of the data handler that parsed it;    *)
(* received: how many segments the data handlers took;                     *)
(* crashed: an exception left an event handler and ended the process.      *)
(* One connection is followed byte by byte: wire holds the bytes its peer  *)
(* wrote that no data event has delivered yet, arrived the bytes delivered *)
(* so far, messageBuffer the variable of that name in the closure of its   *)
(* data handler, handled the texts parsed and given to handleMessage.      *)
(***************************************************************************)
Message(type, payload) == [type |-> type, payload |-> payload]

NoPayload == [empty |-> TRUE]

\* new P2PNetwork(config) with no initial peers
NewP2PNetwork ==
    [sockets |-> {}, written |-> {}, message |-> Message("none", NoPayload),
     from |-> "", received |-> 0, crashed |-> FALSE,
     wire |-> <<>>, arrived |-> <<>>, messageBuffer |-> <<>>, handled |-> <<>>]

\* broadcast(message): socket.write(JSON.stringify(message) + '\n') on every socket
broadcast(net, message) ==
    [net EXCEPT !.written = @ \cup {<<peer, message>> : peer \in net.sockets}]

\* new MiningManager(blockchain, minerWallet): isMining = false.  searching: the
\* event loop is inside block.mine; timers: pending setTimeout callbacks of
\* mineNextBlock; stopRequests: stop requests that reached the node and wait for
\* the event loop; stopIssuedInSearch: one of them arrived during the search
\* walletReady: minerWallet.isReady(); createApp calls minerWallet.initialize()
\* before it builds the manager
NewMiningManager ==
    [isMining |-> FALSE, searching |-> FALSE, timers |-> 0,
     stopRequests |-> 0, stopIssuedInSearch |-> FALSE, walletReady |-> TRUE]

\* new Blockchain(config): the genesis block is on the chain and applied
Init ==
    /\ chain = <<GenesisBlock>>
    /\ utxoSet = ProcessAll(EmptyUTXOSet, GenesisBlock.transactions, 0).set
    /\ mempool = <<>>
    /\ difficulty = initialDifficulty
    /\ now = BootTime
    /\ result = Result("init", TRUE, "", {})
    /\ miningManager = NewMiningManager
    /\ p2pNetwork = NewP2PNetwork

\* blockchain.addTransactionToMempool(tx) with a transaction received from outside
SubmitTransaction(tx) ==
    \E r \in {addTransactionToMempool(tx, utxoSet, mempool)} :
        /\ Len(mempool) < MaxMempool
        /\ mempool' = r.mempool
        /\ result' = Result("addTransactionToMempool", r.success, r.error, InputKeys(tx))
        /\ UNCHANGED <<chain, utxoSet, difficulty, now, miningManager, p2pNetwork>>

\* the two transfer routes: createAndSignTransfer, then addTransactionToMempool;
\* the mempool of the model takes transfers while it holds less than limit
TransferUpTo(limit, fromAddress, toAddress, amount, privateKey) ==
    \E built \in {createAndSignTransfer(fromAddress, toAddress, amount,
                                        KeyOfAddress(fromAddress), utxoSet, privateKey)} :
        /\ ~p2pNetwork.crashed
        /\ Len(mempool) < limit
        /\ IF built.ok
           THEN \E r \in {addTransactionToMempool(built.tx, utxoSet, mempool)} :
                    /\ mempool' = r.mempool
                    /\ result' = Result("transfer", r.success, r.error, InputKeys(built.tx))
                    /\ p2pNetwork' =
                           IF r.success
                           THEN broadcast(p2pNetwork,
                                          Message("NEW_TRANSACTION",
                                                  TransactionSerialize(built.tx)))
                           ELSE p2pNetwork
           ELSE /\ mempool' = mempool
                /\ result' = Result("transfer", FALSE, "create", {})
                /\ UNCHANGED p2pNetwork
        /\ UNCHANGED <<chain, utxoSet, difficulty, now, miningManager>>

Transfer(fromAddress, toAddress, amount, privateKey) ==
    TransferUpTo(MaxMempool, fromAddress, toAddress, amount, privateKey)

\* POST /mining/miner/transfer: signed with the miner wallet's key
MinerTransfer ==
    \E toAddress \in Addresses \ {minerAddress}, amount \in TransferAmounts :
        Transfer(minerAddress, toAddress, amount, KeyOfAddress(minerAddress))

\* POST /transactions/client-transfer: no private key on the server
ClientTransfer ==
    \E fromAddress \in Addresses, amount \in TransferAmounts :
        Transfer(fromAddress, Recipient(fromAddress), amount, "")

SubmitTx == \E tx \in CandidateTransactions(utxoSet) : SubmitTransaction(tx)

\* MiningManager.mineNextBlock -> blockchain.mineBlock(minerAddress)
MineBlock ==
    \E dt \in 0..MaxClockStep :
        \E r \in {mineBlock(chain, utxoSet, mempool, difficulty, minerAddress, now + dt)} :
            /\ ~p2pNetwork.crashed
            /\ getHeight(chain) < MaxHeight
            /\ now + dt <= MaxClock
            /\ now' = now + dt
            /\ chain' = r.chain
            /\ utxoSet' = r.set
            /\ mempool' = r.mempool
            /\ difficulty' = r.difficulty
            /\ result' = Result("mineBlock", r.success, r.error, {})
            /\ UNCHANGED <<miningManager, p2pNetwork>>

\* blockchain.addBlock(block) with a block received from outside
AddBlock ==
    \E block \in CandidateBlocks(chain, utxoSet, difficulty, now) :
        \E r \in {addBlock(block, chain, utxoSet, now)} :
            /\ getHeight(chain) < MaxBlocks
            /\ UtxoRecords(utxoSet) <= MaxUtxos
            /\ chain' = r.chain
            /\ utxoSet' = r.set
            /\ result' = Result("addBlock", r.success, r.reason, {})
            /\ UNCHANGED <<mempool, difficulty, now, miningManager, p2pNetwork>>

Next == SubmitTx \/ MinerTransfer \/ ClientTransfer \/ MineBlock

Spec == Init /\ [][Next]_vars

NextBlocks == AddBlock \/ MineBlock

SpecBlocks == Init /\ [][NextBlocks]_vars

(***************************************************************************)
(* Retargeting.  adjustDifficulty reads the timestamps of the chain and    *)
(* the current difficulty.  SpecAdjust applies it to chains whose blocks   *)
(* arrived at a steady pace, from every difficulty of the range;           *)
(* SpecRetarget lets the node mine from genesis with fast or slow blocks.  *)
(***************************************************************************)
\* milliseconds between two blocks: 10 blocks take 1/5, 1/4, 2/5, 1/2, 1, 2, 5/2,
\* 4 and 5 times targetBlockTime * difficultyAdjustmentInterval
RetargetPaces == {2000, 2500, 4000, 5000, 10000, 20000, 25000, 40000, 50000}

\* the state after addBlock
PacedAdded(r) == [chain |-> r.chain, set |-> r.set]

\* addBlock of the n-th block, mined on the tip by another miner dt after the tip
PacedNext(prev, n, dt) ==
    PacedAdded(addBlock(MinedBlock(<<ForeignCoinbase(n, getBlockReward(n),
                                                     GenesisTime + n * dt)>>,
                                   prev.chain, initialDifficulty, GenesisTime + n * dt),
                        prev.chain, prev.set, GenesisTime + n * dt))

RECURSIVE PacedState(_, _)
\* the chain and UTXO set after n blocks, one every dt milliseconds
PacedState(n, dt) ==
    IF n = 0
    THEN [chain |-> <<GenesisBlock>>,
          set |-> ProcessAll(EmptyUTXOSet, GenesisBlock.transactions, 0).set]
    ELSE CHOOSE s \in {PacedNext(prev, n, dt) : prev \in {PacedState(n - 1, dt)}} : TRUE

\* a node holding a paced chain, at any difficulty of the range
InitAdjust ==
    \E n \in {ShortChain, IntervalChain}, dt \in RetargetPaces :
        \E s \in {PacedState(n, dt)} :
            /\ chain = s.chain
            /\ utxoSet = s.set
            /\ mempool = <<>>
            /\ difficulty \in 1..maxDifficulty
            /\ now = GenesisTime + n * dt
            /\ result = Result("init", TRUE, "", {})
            /\ miningManager = NewMiningManager
            /\ p2pNetwork = NewP2PNetwork

\* blockchain.adjustDifficulty()
AdjustDifficulty ==
    /\ difficulty' = adjustDifficulty(chain, difficulty)
    /\ result' = Result("adjustDifficulty", TRUE, "", {})
    /\ UNCHANGED <<chain, utxoSet, mempool, now, miningManager, p2pNetwork>>

SpecAdjust == InitAdjust /\ [][AdjustDifficulty]_vars

\* milliseconds between two calls of the paced miner: fast and slow blocks
RetargetSteps == {2002, 50001}

\* MiningManager.mineNextBlock -> blockchain.mineBlock(minerAddress), block after
\* block with an empty mempool
MinePaced ==
    \E dt \in RetargetSteps :
        \E r \in {mineBlock(chain, utxoSet, mempool, difficulty, minerAddress, now + dt)} :
            /\ getHeight(chain) < RetargetHeight
            /\ now' = now + dt
            /\ chain' = r.chain
            /\ utxoSet' = r.set
            /\ mempool' = r.mempool
            /\ difficulty' = r.difficulty
            /\ result' = Result("mineBlock", r.success, r.error, {})
            /\ UNCHANGED <<miningManager, p2pNetwork>>

SpecRetarget == Init /\ [][MinePaced]_vars

\* blockchain = Blockchain.deserialize(blockchain.serialize())
Reload ==
    \E r \in {BlockchainDeserialize(BlockchainSerialize(chain, utxoSet, difficulty))} :
        /\ chain' = r.chain
        /\ utxoSet' = r.set
        /\ difficulty' = r.difficulty
        /\ mempool' = <<>>
        /\ result' = Result("deserialize", TRUE, "", {})
        /\ UNCHANGED <<now, miningManager, p2pNetwork>>

NextReload == MinerTransfer \/ ClientTransfer \/ MineBlock \/ Reload

SpecReload == Init /\ [][NextReload]_vars

(***************************************************************************)
(* Transfers between any two addresses, mined by any address.              *)
(***************************************************************************)
\* UTXOSet.getBalance
getBalance(S, address) ==
    SumSeq([i \in 1..Len(getUTXOsByAddress(S, address)) |->
               getUTXOsByAddress(S, address)[i].amount])

\* amounts of the transfers: 3 and 4 tokens
PayAmounts == {3 * Unit, 4 * Unit}

\* createAndSignTransfer with the sender's key, then addTransactionToMempool
PayTokens ==
    \E fromAddress \in Addresses, toAddress \in Addresses, amount \in PayAmounts :
        /\ fromAddress # toAddress
        /\ Transfer(fromAddress, toAddress, amount, KeyOfAddress(fromAddress))

\* blockchain.mineBlock(miner) for any miner address
MineFor ==
    \E miner \in Addresses, dt \in 0..MaxClockStep :
        \E r \in {mineBlock(chain, utxoSet, mempool, difficulty, miner, now + dt)} :
            /\ getHeight(chain) < MaxHeight
            /\ now + dt <= MaxClock
            /\ now' = now + dt
            /\ chain' = r.chain
            /\ utxoSet' = r.set
            /\ mempool' = r.mempool
            /\ difficulty' = r.difficulty
            /\ result' = Result("mineBlock", r.success, r.error, {})
            /\ UNCHANGED <<miningManager, p2pNetwork>>

NextTransfer == PayTokens \/ MineFor

SpecTransfer == Init /\ [][NextTransfer]_vars

(***************************************************************************)
(* Blocks of other miners arriving while the mempool holds transfers.      *)
(***************************************************************************)
\* transaction lists of relayed blocks: what a miner holding the same mempool
\* mines (coinbase, then the pending transactions), a spend of an outpoint that
\* does not exist, and two coinbases
RelayBodies(c, S, pool, timestamp) ==
    {<<ForeignCoinbase(getHeight(c) + 1,
                       getBlockReward(getHeight(c) + 1)
                       + SumSeq([i \in 1..Len(pool) |-> pool[i].fee]),
                       timestamp)>> \o pool,
     <<ForeignCoinbase(getHeight(c) + 1, getBlockReward(getHeight(c) + 1), timestamp),
       CraftTransaction(<<GhostUTXO>>, "owner", GhostUTXO.amount - Unit, Unit)>>,
     <<ForeignCoinbase(getHeight(c) + 1, getBlockReward(getHeight(c) + 1), timestamp),
       ForeignCoinbase(getHeight(c) + 1, getBlockReward(getHeight(c) + 1), timestamp)>>}

\* a block mined on the block before the tip, which was the tip when its author
\* started
StaleBlocks(c, d, timestamp) ==
    IF Len(c) < 2 THEN {}
    ELSE {MinedBlock(<<ForeignCoinbase(getHeight(c), getBlockReward(getHeight(c)),
                                       timestamp)>>,
                     SubSeq(c, 1, Len(c) - 1), d, timestamp)}

\* the blocks offered to addBlock, stamped one millisecond after the tip
RelayBlocks(c, S, pool, d, time) ==
    {MinedBlock(body, c, d, getLatestBlock(c).header.timestamp + 1) :
        body \in RelayBodies(c, S, pool, getLatestBlock(c).header.timestamp + 1)}
    \cup StaleBlocks(c, d, getLatestBlock(c).header.timestamp + 1)
    \cup DeviantBlocks(c, d, getLatestBlock(c).header.timestamp + 1, time)

\* blockchain.addBlock(block) with a block of another miner
AddRelayed ==
    \E block \in RelayBlocks(chain, utxoSet, mempool, difficulty, now) :
        \E r \in {addBlock(block, chain, utxoSet, now)} :
            /\ ~p2pNetwork.crashed
            /\ getHeight(chain) < MaxRelayed
            /\ chain' = r.chain
            /\ utxoSet' = r.set
            /\ result' = Result("addBlock", r.success, r.reason,
                                UNION {InputKeys(block.transactions[i]) :
                                          i \in 1..Len(block.transactions)})
            /\ UNCHANGED <<mempool, difficulty, now, miningManager, p2pNetwork>>

NextRelay == MinerTransfer \/ ClientTransfer \/ AddRelayed \/ MineBlock

SpecRelay == Init /\ [][NextRelay]_vars

(***************************************************************************)
(* Arguments that are no Transaction and no Block.  Every statement of     *)
(* addTransactionToMempool, addBlock and mineBlock is inside the method's  *)
(* try block, so the TypeError of a call on null, of a missing isValid     *)
(* method or of a null element of block.transactions is caught and becomes *)
(* {success: false, error | reason: error.message}.                        *)
(***************************************************************************)
NullArgument == [isNull |-> TRUE]
\* an object parsed from JSON that was never given to deserialize
PlainObject == [isPlain |-> TRUE]
\* mineBlock(null): the coinbase output is built with the address null
NullAddress == "null"

\* addTransactionToMempool(arg): transaction.isValid(...) is the first statement
\* of the try block
callAddTransactionToMempool(arg, S, pool) ==
    IF "inputs" \notin DOMAIN arg
    THEN [success |-> FALSE, error |-> "TypeError", mempool |-> pool]
    ELSE addTransactionToMempool(arg, S, pool)

\* addBlock whose call of block.isValid is outside the try block
callAddBlockUnguarded(arg, c, S, time) ==
    IF "header" \notin DOMAIN arg
       \/ \E i \in 1..Len(arg.transactions) : "inputs" \notin DOMAIN arg.transactions[i]
    THEN [success |-> FALSE, reason |-> "uncaught", chain |-> c, set |-> S]
    ELSE addBlock(arg, c, S, time)

\* addBlock(arg): block.isValid(...) inside the try block; for a Block holding an
\* element that is no transaction, isValid throws in calculateMerkleRoot, after
\* the header and the hash have been checked
callAddBlock(arg, c, S, time) ==
    IF "header" \notin DOMAIN arg
    THEN [success |-> FALSE, reason |-> "TypeError", chain |-> c, set |-> S]
    ELSE IF \E i \in 1..Len(arg.transactions) : "inputs" \notin DOMAIN arg.transactions[i]
         THEN [success |-> FALSE,
               reason |-> FirstFailure(
                              BlockHeaderIsValid(arg.header, getLatestBlock(c).header, time),
                              IF arg.hash # calculateHash(arg.header) THEN "hash"
                              ELSE "TypeError"),
               chain |-> c, set |-> S]
         ELSE addBlock(arg, c, S, time)

\* what is not a block, and a block on the tip whose second transaction is null
MalformedBlocks(c, d, timestamp) ==
    {NullArgument, PlainObject,
     ForeignBlock(<<ForeignCoinbase(getHeight(c) + 1, getBlockReward(getHeight(c) + 1),
                                    timestamp),
                    NullArgument>>,
                  getLatestBlock(c).hash, Sha256Empty, timestamp, d, 0, getHeight(c) + 1)}

SubmitMalformed ==
    \E arg \in {NullArgument, PlainObject} :
        \E r \in {callAddTransactionToMempool(arg, utxoSet, mempool)} :
            /\ mempool' = r.mempool
            /\ result' = Result("addTransactionToMempool", r.success, r.error, {})
            /\ UNCHANGED <<chain, utxoSet, difficulty, now, miningManager, p2pNetwork>>

AddMalformed ==
    \E arg \in MalformedBlocks(chain, difficulty, getLatestBlock(chain).header.timestamp + 1) :
        \E r \in {callAddBlock(arg, chain, utxoSet, now)} :
            /\ chain' = r.chain
            /\ utxoSet' = r.set
            /\ result' = Result("addBlock", r.success, r.reason, {})
            /\ UNCHANGED <<mempool, difficulty, now, miningManager, p2pNetwork>>

\* blockchain.mineBlock(null)
MineForNobody ==
    \E r \in {mineBlock(chain, utxoSet, mempool, difficulty, NullAddress, now)} :
        /\ getHeight(chain) < MaxHeight
        /\ chain' = r.chain
        /\ utxoSet' = r.set
        /\ mempool' = r.mempool
        /\ difficulty' = r.difficulty
        /\ result' = Result("mineBlock", r.success, r.error, {})
        /\ UNCHANGED <<now, miningManager, p2pNetwork>>

NextCalls ==
    \/ MinerTransfer
    \/ AddRelayed
    \/ MineBlock
    \/ SubmitMalformed
    \/ AddMalformed
    \/ MineForNobody

SpecCalls == Init /\ [][NextCalls]_vars

(***************************************************************************)
(* MiningManager.  JavaScript runs one handler at a time: block.mine is a  *)
(* synchronous while loop and mineBlock has no await, so from the entry of *)
(* mineBlock to the return of addBlock no other handler runs.  A stop      *)
(* request that reaches the node in that time waits in the event loop.     *)
(***************************************************************************)

\* mineNextBlock(minerAddress) up to the call of blockchain.mineBlock
mineNextBlock(m, pool) ==
    IF ~m.isMining THEN m
    ELSE IF Len(pool) = 0 THEN [m EXCEPT !.timers = @ + 1]
    ELSE [m EXCEPT !.searching = TRUE]

\* startMining that does not ask the wallet
startMiningWithoutWallet(m, pool) ==
    IF m.isMining
    THEN [manager |-> m, success |-> FALSE, error |-> "mining"]
    ELSE [manager |-> mineNextBlock([m EXCEPT !.isMining = TRUE], pool),
          success |-> TRUE, error |-> ""]

\* miningManager.startMining(): mineNextBlock runs inside the call up to its await
startMining(m, pool) ==
    IF m.isMining
    THEN [manager |-> m, success |-> FALSE, error |-> "mining"]
    ELSE IF ~m.walletReady
    THEN [manager |-> m, success |-> FALSE, error |-> "wallet"]
    ELSE [manager |-> mineNextBlock([m EXCEPT !.isMining = TRUE], pool),
          success |-> TRUE, error |-> ""]

\* POST /mining/start -> miningManager.startMining()
StartMining ==
    \E r \in {startMining(miningManager, mempool)} :
        /\ ~miningManager.searching
        /\ miningManager.timers < MaxTimers
        /\ miningManager' = r.manager
        /\ result' = Result("startMining", r.success, r.error, {})
        /\ UNCHANGED <<chain, utxoSet, mempool, difficulty, now, p2pNetwork>>

\* a setTimeout callback runs mineNextBlock
TimerFires ==
    /\ ~miningManager.searching
    /\ miningManager.timers > 0
    /\ miningManager' = mineNextBlock([miningManager EXCEPT !.timers = @ - 1], mempool)
    /\ UNCHANGED <<chain, utxoSet, mempool, difficulty, now, result, p2pNetwork>>

\* blockchain.mineBlock returns to mineNextBlock: the search is over, the block
\* was given to addBlock, and the next round is scheduled (after 1 s or 5 s)
SearchEnds ==
    \E dt \in 0..MaxClockStep :
        \E r \in {mineBlock(chain, utxoSet, mempool, difficulty, minerAddress, now + dt)} :
            /\ miningManager.searching
            /\ getHeight(chain) < MaxHeight
            /\ now + dt <= MaxClock
            /\ now' = now + dt
            /\ chain' = r.chain
            /\ utxoSet' = r.set
            /\ mempool' = r.mempool
            /\ difficulty' = r.difficulty
            /\ result' = Result("mineBlock", r.success, r.error, {})
            /\ miningManager' = [miningManager EXCEPT !.searching = FALSE,
                                                      !.stopIssuedInSearch = FALSE,
                                                      !.timers = @ + 1]
            /\ UNCHANGED p2pNetwork

\* a client sends POST /mining/stop; the request reaches the node at any time
IssueStop ==
    /\ miningManager.stopRequests < MaxStopRequests
    /\ miningManager' = [miningManager EXCEPT
                             !.stopRequests = @ + 1,
                             !.stopIssuedInSearch = @ \/ miningManager.searching]
    /\ UNCHANGED <<chain, utxoSet, mempool, difficulty, now, result, p2pNetwork>>

\* the event loop runs miningManager.stopMining() for a waiting request;
\* miningInterval is never assigned, so no timer is cleared
StopMining ==
    /\ ~miningManager.searching
    /\ miningManager.stopRequests > 0
    /\ IF ~miningManager.isMining
       THEN /\ miningManager' = [miningManager EXCEPT !.stopRequests = @ - 1]
            /\ result' = Result("stopMining", FALSE, "notMining", {})
       ELSE /\ miningManager' = [miningManager EXCEPT !.stopRequests = @ - 1,
                                                      !.isMining = FALSE]
            /\ result' = Result("stopMining", TRUE, "", {})
    /\ UNCHANGED <<chain, utxoSet, mempool, difficulty, now, p2pNetwork>>

\* POST /mining/miner/transfer, handled when the event loop is free
TransferBetweenRounds ==
    /\ ~miningManager.searching
    /\ MinerTransfer

NextMining ==
    \/ StartMining
    \/ TimerFires
    \/ SearchEnds
    \/ IssueStop
    \/ StopMining
    \/ TransferBetweenRounds

SpecMining == Init /\ [][NextMining]_vars

\* a node whose MiningManager holds a MinerWallet that was constructed but not
\* initialised: isInitialized = false, minerAddress = null
InitWallet ==
    /\ chain = <<GenesisBlock>>
    /\ utxoSet = ProcessAll(EmptyUTXOSet, GenesisBlock.transactions, 0).set
    /\ mempool = <<>>
    /\ difficulty = initialDifficulty
    /\ now = BootTime
    /\ result = Result("init", TRUE, "", {})
    /\ miningManager = [NewMiningManager EXCEPT !.walletReady = FALSE]
    /\ p2pNetwork = NewP2PNetwork

\* minerWallet.initialize()
InitializeWallet ==
    /\ ~miningManager.searching
    /\ ~miningManager.walletReady
    /\ miningManager' = [miningManager EXCEPT !.walletReady = TRUE]
    /\ result' = Result("initialize", TRUE, "", {})
    /\ UNCHANGED <<chain, utxoSet, mempool, difficulty, now, p2pNetwork>>

NextWallet ==
    \/ InitializeWallet
    \/ StartMining
    \/ TimerFires
    \/ SearchEnds
    \/ IssueStop
    \/ StopMining
    \/ TransferBetweenRounds

SpecWallet == InitWallet /\ [][NextWallet]_vars

(***************************************************************************)
(* Peers.  A data handler takes one newline-terminated segment, gives it   *)
(* to JSON.parse and the result to handleMessage.  Neither the handler nor *)
(* handleMessage has a try block and index.js installs no handler for      *)
(* uncaught exceptions, so an exception thrown there ends the process.     *)
(***************************************************************************)
Peers == {"p1", "p2"}

\* handleNewSocket(socket) up to the registration of the handlers
handleNewSocket(net, peerKey) ==
    IF peerKey \in net.sockets THEN net
    ELSE [net EXCEPT !.sockets = @ \cup {peerKey}]

\* handleNewTransaction(txData): logs, touches nothing
handleNewTransaction(pool, S, txData) == pool

\* handleNewBlock(blockData): logs, touches nothing
handleNewBlock(c, S, blockData) == [chain |-> c, set |-> S]

\* a segment of the stream: whether JSON.parse accepts its text, and the value
Segment(json, message) == [json |-> json, message |-> message]

\* a competing branch of two blocks on the genesis block, mined at a higher
\* difficulty than the node's
BranchDifficulty == initialDifficulty + 1

BranchY ==
    LET t == GenesisBlock.header.timestamp
        y1 == MinedBlock(<<ForeignCoinbase(1, getBlockReward(1), t + 2)>>,
                         <<GenesisBlock>>, BranchDifficulty, t + 2)
        y2 == MinedBlock(<<ForeignCoinbase(2, getBlockReward(2), t + 4)>>,
                         <<GenesisBlock, y1>>, BranchDifficulty, t + 4)
    IN <<y1, y2>>

\* what peers send: text that is no JSON, the JSON text null, a message of an
\* unknown type, signed and forged spends of unspent outputs, the blocks of BranchY
PeerSegments(S) ==
    {Segment(FALSE, NoPayload), Segment(TRUE, NullArgument),
     Segment(TRUE, Message("PING", NoPayload))}
    \cup {Segment(TRUE, Message("NEW_TRANSACTION",
                                TransactionSerialize(
                                    CraftTransaction(<<u>>, mode, u.amount - Unit, Unit)))) :
             u \in S.utxos, mode \in {"owner", "forged"}}
    \cup {Segment(TRUE, Message("NEW_BLOCK", BlockSerialize(BranchY[i]))) : i \in 1..2}

\* a new connection, inbound or outbound
PeerConnects ==
    \E peerKey \in Peers \ p2pNetwork.sockets :
        /\ ~p2pNetwork.crashed
        /\ p2pNetwork' = handleNewSocket(p2pNetwork, peerKey)
        /\ result' = Result("handleNewSocket", TRUE, "", {})
        /\ UNCHANGED <<chain, utxoSet, mempool, difficulty, now, miningManager>>

\* socket.on('data') with one segment: JSON.parse(message), then handleMessage
ReceiveSegment ==
    \E peerKey \in p2pNetwork.sockets, segment \in PeerSegments(utxoSet) :
        /\ ~p2pNetwork.crashed
        /\ p2pNetwork.received < MaxReceived
        /\ IF ~segment.json \/ "type" \notin DOMAIN segment.message
           THEN /\ p2pNetwork' = [p2pNetwork EXCEPT !.crashed = TRUE,
                                                    !.from = peerKey,
                                                    !.received = @ + 1]
                /\ result' = Result("handleMessage", FALSE,
                                    IF segment.json THEN "TypeError" ELSE "SyntaxError", {})
                /\ UNCHANGED <<chain, utxoSet, mempool>>
           ELSE /\ p2pNetwork' = [p2pNetwork EXCEPT !.message = segment.message,
                                                    !.from = peerKey,
                                                    !.received = @ + 1]
                /\ result' = Result("handleMessage", TRUE, "", {})
                /\ mempool' = IF segment.message.type = "NEW_TRANSACTION"
                              THEN handleNewTransaction(mempool, utxoSet,
                                                        segment.message.payload)
                              ELSE mempool
                /\ \E r \in {IF segment.message.type = "NEW_BLOCK"
                              THEN handleNewBlock(chain, utxoSet, segment.message.payload)
                              ELSE [chain |-> chain, set |-> utxoSet]} :
                       /\ chain' = r.chain
                       /\ utxoSet' = r.set
        /\ UNCHANGED <<difficulty, now, miningManager>>

\* a node that mines, takes transfers and talks to peers
NextPeers ==
    \/ PeerConnects
    \/ ReceiveSegment
    \/ MinerTransfer
    \/ MineBlock

SpecPeers == Init /\ [][NextPeers]_vars

\* the event loop runs the handler of every socket event that is waiting
SpecPeersLive == SpecPeers /\ WF_vars(PeerConnects) /\ WF_vars(ReceiveSegment)

\* a node that follows the blocks of other miners
NextFork ==
    \/ PeerConnects
    \/ ReceiveSegment
    \/ AddRelayed

SpecFork == Init /\ [][NextFork]_vars

(***************************************************************************)
(* The UTXO set by itself: processTransaction, and rollbackTransaction of  *)
(* the UTXOSet copy that has it.                                           *)
(***************************************************************************)
RECURSIVE RollbackOutputs(_, _, _)
\* first loop of rollbackTransaction: delete the outputs found under tx.id:i
RollbackOutputs(S, tx, i) ==
    IF i > Len(tx.outputs) THEN S
    ELSE IF ~hasUTXO(S, tx.id, i - 1) THEN RollbackOutputs(S, tx, i + 1)
    ELSE RollbackOutputs(
             [S EXCEPT !.utxos = @ \ {getUTXO(S, tx.id, i - 1)},
                       !.addressIndex = IndexRemove(@, getUTXO(S, tx.id, i - 1).address,
                                                    <<tx.id, i - 1>>),
                       !.totalSupply = @ - getUTXO(S, tx.id, i - 1).amount],
             tx, i + 1)

RECURSIVE RollbackInputs(_, _, _)
\* second loop: the spent records of the inputs that tx spent become unspent
RollbackInputs(S, inputs, tx) ==
    IF inputs = <<>> THEN S
    ELSE IF Head(inputs).transactionId = ZeroId
            \/ ~\E u \in S.spentUTXOs :
                   /\ getKey(u) = <<Head(inputs).transactionId, Head(inputs).outputIndex>>
                   /\ u.spentTxId = tx.id
         THEN RollbackInputs(S, Tail(inputs), tx)
         ELSE \* the record of that key, with spent = false, spentTxId = null,
              \* spentHeight = null
              RollbackInputs(
                  CHOOSE R \in {[S EXCEPT
                                    !.utxos = MapSet(@, [u EXCEPT !.spent = FALSE,
                                                                  !.spentTxId = Null,
                                                                  !.spentHeight = NoHeight]),
                                    !.spentUTXOs = @ \ {u},
                                    !.addressIndex = IndexAdd(@, u.address, getKey(u)),
                                    !.totalSupply = @ + u.amount] :
                                u \in {v \in S.spentUTXOs :
                                          getKey(v) = <<Head(inputs).transactionId,
                                                        Head(inputs).outputIndex>>}} : TRUE,
                  Tail(inputs), tx)

\* UTXOSet.rollbackTransaction(transaction, blockHeight)
rollbackTransaction(S, tx, blockHeight) ==
    RollbackInputs(RollbackOutputs(S, tx, 1), tx.inputs, tx)

\* height at which transactions are applied
LedgerHeights == {1}

\* transactions given to the set: coinbases of two miners, and spends of one or
\* two outputs, each unspent or absent
LedgerTransactions(S) ==
    {CoinbaseWithScript(minerAddress, 1, getBlockReward(1), <<1, minerAddress>>, BootTime),
     ForeignCoinbase(1, getBlockReward(1), BootTime)}
    \cup {CraftTransaction(spent, "owner", TotalAmount(spent) - Unit, Unit) :
            spent \in SeqsUpTo(S.utxos \cup {GhostUTXO}, MaxInputs) \ {<<>>}}

\* utxoSet.processTransaction(tx, blockHeight)
ProcessTransaction ==
    \E tx \in LedgerTransactions(utxoSet), blockHeight \in LedgerHeights :
        \E r \in {processTransaction(utxoSet, tx, blockHeight)} :
            /\ UtxoRecords(utxoSet) < MaxUtxos
            /\ utxoSet.totalSupply < MaxSupply
            /\ utxoSet' = r.set
            /\ result' = Result("processTransaction", r.ok,
                                IF r.ok THEN "" ELSE "removeUTXO", InputKeys(tx))
            /\ UNCHANGED <<chain, mempool, difficulty, now, miningManager, p2pNetwork>>

\* utxoSet.processTransaction(tx, blockHeight), then
\* utxoSet.rollbackTransaction(tx, blockHeight)
ProcessAndRollback ==
    \E tx \in LedgerTransactions(utxoSet), blockHeight \in LedgerHeights :
        \E r \in {processTransaction(utxoSet, tx, blockHeight)} :
            /\ UtxoRecords(utxoSet) < MaxUtxos
            /\ utxoSet.totalSupply < MaxSupply
            /\ r.ok
            /\ utxoSet' = rollbackTransaction(r.set, tx, blockHeight)
            /\ result' = Result("rollbackTransaction", TRUE, "", InputKeys(tx))
            /\ UNCHANGED <<chain, mempool, difficulty, now, miningManager, p2pNetwork>>

NextLedger == ProcessTransaction \/ ProcessAndRollback

SpecLedger == Init /\ [][NextLedger]_vars

(***************************************************************************)
(* selectUTXOsForPayment called on the sets that transfers and mining      *)
(* produce.  The routes accept positive amounts only.                      *)
(***************************************************************************)
SelectTargets == {3 * Unit, 10 * Unit, 40 * Unit}

\* utxoSet.selectUTXOsForPayment(address, targetAmount)
SelectForPayment ==
    \E address \in Addresses, targetAmount \in SelectTargets :
        \E r \in {selectUTXOsForPayment(utxoSet, address, targetAmount, feePercentage)} :
            /\ result' = Result("selectUTXOsForPayment", r.ok,
                                IF r.ok THEN "" ELSE "funds",
                                [address |-> address, targetAmount |-> targetAmount,
                                 selection |-> r])
            /\ UNCHANGED <<chain, utxoSet, mempool, difficulty, now, miningManager,
                           p2pNetwork>>

NextSelect == SelectForPayment \/ PayTokens \/ MineFor

SpecSelect == Init /\ [][NextSelect]_vars

(***************************************************************************)
(* A miner that keeps mining on a chain that also takes the blocks of      *)
(* other miners: the mempool it selects from holds transfers whose inputs  *)
(* a block has spent, and several valid transfers at once.                 *)
(***************************************************************************)
\* MiningManager.mineNextBlock -> blockchain.mineBlock(minerAddress)
MineOnTip ==
    \E r \in {mineBlock(chain, utxoSet, mempool, difficulty, minerAddress, now)} :
        /\ getHeight(chain) < MaxRelayed
        /\ chain' = r.chain
        /\ utxoSet' = r.set
        /\ mempool' = r.mempool
        /\ difficulty' = r.difficulty
        /\ result' = Result("mineBlock", r.success, r.error, {})
        /\ UNCHANGED <<now, miningManager, p2pNetwork>>

NextPool == PayTokens \/ AddRelayed \/ MineOnTip

SpecPool == Init /\ [][NextPool]_vars

(***************************************************************************)
(* Block.mine by itself: the candidate createBlock assembles is mined at   *)
(* every difficulty of a range, at every clock reading.                    *)
(***************************************************************************)
MaxMineDifficulty == 3

\* block = createBlock(minerAddress); block.mine(d)
MineCandidate ==
    \E d \in 1..MaxMineDifficulty, dt \in 0..MaxClockStep :
        \E created \in {createBlock(chain, utxoSet, mempool, minerAddress, now + dt)} :
            /\ now + dt <= MaxClock
            /\ now' = now + dt
            /\ mempool' = created.mempool
            /\ result' = Result("mine", TRUE, "",
                                [difficulty |-> d, created |-> created.block,
                                 block |-> mine(created.block, d)])
            /\ UNCHANGED <<chain, utxoSet, difficulty, miningManager, p2pNetwork>>

NextMine == MineCandidate \/ MinerTransfer \/ ClientTransfer \/ MineBlock

SpecMine == Init /\ [][NextMine]_vars

(***************************************************************************)
(* The byte stream of one connection.  Characters are "a" (one byte), "e2" *)
(* (a character of two bytes, lead "L" and continuation "C") and "nl" (the *)
(* newline byte); "?" is U+FFFD.  Every text between two newlines stands   *)
(* for a JSON text, so JSON.parse returns and handleMessage is called.     *)
(***************************************************************************)
MaxStreamBytes == 5

StreamPeer == "p1"

StreamCharacters == {"a", "e2", "nl"}

\* the UTF-8 bytes of one character
Utf8Bytes(ch) == IF ch = "e2" THEN <<"L", "C">> ELSE <<ch>>

RECURSIVE BufferToString(_)
\* data.toString(): the UTF-8 decoding of one Buffer by itself; a lead byte
\* without its continuation and a continuation without its lead become U+FFFD
BufferToString(bytes) ==
    IF bytes = <<>> THEN <<>>
    ELSE IF Head(bytes) = "L" /\ Len(bytes) >= 2 /\ bytes[2] = "C"
         THEN <<"e2">> \o BufferToString(SubSeq(bytes, 3, Len(bytes)))
    ELSE IF Head(bytes) \in {"L", "C"}
         THEN <<"?">> \o BufferToString(Tail(bytes))
    ELSE <<Head(bytes)>> \o BufferToString(Tail(bytes))

\* messageBuffer.indexOf('\n'), 1-based; 0 stands for -1
indexOfNewline(buffer) ==
    IF \E i \in 1..Len(buffer) : buffer[i] = "nl"
    THEN CHOOSE i \in 1..Len(buffer) :
            buffer[i] = "nl" /\ \A j \in 1..(i - 1) : buffer[j] # "nl"
    ELSE 0

RECURSIVE DrainBuffer(_, _)
\* the while loop of the data handler: [messageBuffer, handled]
DrainBuffer(buffer, handled) ==
    LET boundary == indexOfNewline(buffer)
    IN IF boundary = 0 THEN [messageBuffer |-> buffer, handled |-> handled]
       ELSE DrainBuffer(SubSeq(buffer, boundary + 1, Len(buffer)),
                        Append(handled, SubSeq(buffer, 1, boundary - 1)))

\* socket.on('data', (data) => ...) of the connection, with one chunk
onData(net, data) ==
    LET drained == DrainBuffer(net.messageBuffer \o BufferToString(data), net.handled)
    IN [net EXCEPT !.arrived = @ \o data,
                   !.messageBuffer = drained.messageBuffer,
                   !.handled = drained.handled]

\* the peer writes one more character to its socket
PeerWrites ==
    \E ch \in StreamCharacters :
        /\ StreamPeer \in p2pNetwork.sockets
        /\ ~p2pNetwork.crashed
        /\ Len(p2pNetwork.arrived) + Len(p2pNetwork.wire) + Len(Utf8Bytes(ch))
              <= MaxStreamBytes
        /\ p2pNetwork' = [p2pNetwork EXCEPT !.wire = @ \o Utf8Bytes(ch)]
        /\ UNCHANGED <<chain, utxoSet, mempool, difficulty, now, result, miningManager>>

\* a data event of the connection: TCP delivers any non-empty prefix of the
\* bytes in flight
ReceiveChunk ==
    \E n \in 1..Len(p2pNetwork.wire) :
        /\ StreamPeer \in p2pNetwork.sockets
        /\ ~p2pNetwork.crashed
        /\ p2pNetwork' = [onData(p2pNetwork, SubSeq(p2pNetwork.wire, 1, n))
                             EXCEPT !.wire = SubSeq(@, n + 1, Len(@))]
        /\ result' = Result("data", TRUE, "", {})
        /\ UNCHANGED <<chain, utxoSet, mempool, difficulty, now, miningManager>>

NextStream == PeerConnects \/ PeerWrites \/ ReceiveChunk

SpecStream == Init /\ [][NextStream]_vars

(***************************************************************************)
(* The mining loop left to run.  Transfers arrive while the chain is short *)
(* (MaxLiveHeight), which bounds the chain: a round mines only when the    *)
(* mempool holds a transaction.  A round starts at least a timer delay     *)
(* after the block before it was created, so the clock has advanced.  A    *)
(* round that fails for the number of transactions fails so at every clock *)
(* reading and leaves nothing behind; the clock of the model stays where   *)
(* it was after such a round, which makes its repetition a cycle.          *)
(***************************************************************************)
MaxLiveHeight == 3
MaxRoundDelay == 1

\* blockchain.mineBlock returns to mineNextBlock, which schedules the next round
SearchTerminates ==
    \E dt \in 1..MaxRoundDelay :
        \E r \in {mineBlock(chain, utxoSet, mempool, difficulty, minerAddress, now + dt)} :
            /\ miningManager.searching
            /\ now' = IF r.error = "tooManyTransactions" THEN now ELSE now + dt
            /\ chain' = r.chain
            /\ utxoSet' = r.set
            /\ mempool' = r.mempool
            /\ difficulty' = r.difficulty
            /\ result' = Result("mineBlock", r.success, r.error, {})
            /\ miningManager' = [miningManager EXCEPT !.searching = FALSE,
                                                      !.timers = @ + 1]
            /\ UNCHANGED p2pNetwork

\* a transfer route, handled when the event loop is free; the mempool takes
\* one transfer more than a block holds beside its coinbase
TransferWhileShort ==
    \E fromAddress \in Addresses, toAddress \in Addresses, amount \in PayAmounts :
        /\ fromAddress # toAddress
        /\ ~miningManager.searching
        /\ getHeight(chain) < MaxLiveHeight
        /\ TransferUpTo(maxTransactions, fromAddress, toAddress, amount,
                        KeyOfAddress(fromAddress))

NextLoop == StartMining \/ TimerFires \/ SearchTerminates \/ TransferWhileShort

SpecLoop == Init /\ [][NextLoop]_vars

\* every timer fires and every proof-of-work search terminates.  A step ends
\* the search exactly when it is a SearchTerminates step, and that step is
\* possible exactly while the search runs, so WF_vars(SearchTerminates) is
\* []<>~miningManager.searching.
SpecLoopLive ==
    SpecLoop /\ WF_vars(TimerFires) /\ []<>(~miningManager.searching)

(***************************************************************************)
(* A caller hands addTransactionToMempool a coinbase transaction.          *)
(***************************************************************************)
\* blockchain.addTransactionToMempool(Transaction.createCoinbase(...))
SubmitCoinbase ==
    \E toAddress \in Addresses :
        SubmitTransaction(createCoinbase(toAddress, getHeight(chain) + 1,
                                         getBlockReward(getHeight(chain) + 1),
                                         <<getHeight(chain) + 1, toAddress>>, now))

NextCoinbase == SubmitCoinbase \/ MinerTransfer \/ ClientTransfer \/ MineBlock

SpecCoinbase == Init /\ [][NextCoinbase]_vars

(***************************************************************************)
(* Properties.                                                             *)
(***************************************************************************)
\* the mempool held a transaction naming one of the outpoints the last call's
\* transaction names
ConflictsWith(pool, outpoints) ==
    \E k \in 1..Len(pool) : InputKeys(pool[k]) \cap outpoints # {}

MempoolCall(r) == r.op \in {"addTransactionToMempool", "transfer"}

ChainInputs(c) ==
    {p \in (1..Len(c)) \X (1..(MaxBlockTxs + 1)) \X (1..MaxInputs) :
        /\ p[2] <= Len(c[p[1]].transactions)
        /\ p[3] <= Len(c[p[1]].transactions[p[2]].inputs)
        /\ c[p[1]].transactions[p[2]].inputs[p[3]].transactionId # ZeroId}

OutpointAt(c, p) ==
    <<c[p[1]].transactions[p[2]].inputs[p[3]].transactionId,
      c[p[1]].transactions[p[2]].inputs[p[3]].outputIndex>>

\* C2: every outpoint named by a non-coinbase input of the chain is named by
\* exactly one input of the whole chain.
C2_OutpointsSpentOnce ==
    \A p, q \in ChainInputs(chain) :
        OutpointAt(chain, p) = OutpointAt(chain, q) => p = q

\* C3: when addBlock fails while applying the transactions of a block that
\* passed isValid, the UTXO set, the chain and the mempool are exactly as
\* before the call.
C3_FailedApplicationRestores ==
    [][(result'.op = "addBlock" /\ result'.error = "utxoUpdate")
          => (utxoSet' = utxoSet /\ chain' = chain /\ mempool' = mempool)]_vars

\* C4: every input of every mempool transaction carries a public key that
\* derives the address of the output it spends and a scriptSig that is a valid
\* signature, under that key, over {txId, input index, owner address, amount}.
C4_AdmittedInputsAreSigned ==
    \A k \in 1..Len(mempool) : \A i \in 1..Len(mempool[k].inputs) :
        LET input == mempool[k].inputs[i]
        IN hasUTXO(utxoSet, input.transactionId, input.outputIndex) =>
             LET utxo == getUTXO(utxoSet, input.transactionId, input.outputIndex)
             IN /\ DeriveAddress(input.publicKey) = utxo.address
                /\ cryptoVerify(SignatureData(utxo.transactionId, i - 1,
                                              utxo.address, utxo.amount),
                                input.scriptSig, input.publicKey)

\* C5: every block appended by addBlock has hash = the recomputed header hash,
\* merkleRoot = the recomputed Merkle root, and a hash with at least
\* header.difficulty leading zero hex digits.
C5_BlocksAreHashedAndMined ==
    \A i \in 2..Len(chain) :
        /\ chain[i].hash = calculateHash(chain[i].header)
        /\ chain[i].header.merkleRoot = calculateMerkleRoot(chain[i].transactions)
        /\ LeadingZeros(chain[i].hash) >= chain[i].header.difficulty

\* C6: chain[0] is the genesis block, and every later block has height =
\* previous height + 1 = its index, previousBlockHash = the hash of the block
\* before it, and a strictly greater timestamp.
C6_ChainIsLinked ==
    /\ chain[1] = GenesisBlock
    /\ \A i \in 2..Len(chain) :
        /\ chain[i].header.height = chain[i - 1].header.height + 1
        /\ chain[i].header.height = i - 1
        /\ chain[i].header.previousBlockHash = chain[i - 1].hash
        /\ chain[i].header.timestamp > chain[i - 1].header.timestamp

\* two blocks were appended by addBlock after a block had been refused
C6_Witness ==
    /\ Len(chain) >= 3
    /\ result.op = "addBlock"
    /\ result.success

\* C7: totalSupply is the sum of the unspent amounts, and every unspent key is
\* listed in the address index under its own address and no other.
C7_SupplyAndIndexAreConsistent ==
    /\ utxoSet.totalSupply = SumSet(utxoSet.utxos)
    /\ \A u \in utxoSet.utxos :
        /\ \E n \in 1..Len(utxoSet.addressIndex) :
              utxoSet.addressIndex[n] = [address |-> u.address, key |-> getKey(u)]
        /\ \A n \in 1..Len(utxoSet.addressIndex) :
              utxoSet.addressIndex[n].key = getKey(u)
                  => utxoSet.addressIndex[n].address = u.address

\* the amount of the output an input names, from the UTXOSet's records
ReferencedAmount(S, outpoint) ==
    (CHOOSE u \in S.utxos \cup S.spentUTXOs : getKey(u) = outpoint).amount

\* input total, each distinct outpoint counted once, minus output total
ActualFee(S, tx) ==
    SumSeq([i \in 1..Len(tx.inputs) |->
              IF \E j \in 1..(i - 1) :
                    /\ tx.inputs[j].transactionId = tx.inputs[i].transactionId
                    /\ tx.inputs[j].outputIndex = tx.inputs[i].outputIndex
              THEN 0
              ELSE ReferencedAmount(S, <<tx.inputs[i].transactionId,
                                         tx.inputs[i].outputIndex>>)])
    - getOutputAmount(tx)

\* C8: in every block after genesis the coinbase pays getBlockReward(height)
\* plus the fees (input total - output total) of the block's other transactions.
C8_CoinbasePaysRewardPlusFees ==
    \A i \in 2..Len(chain) :
        (Len(chain[i].transactions) > 0 /\ isCoinbase(chain[i].transactions[1])) =>
            getOutputAmount(chain[i].transactions[1]) =
                getBlockReward(chain[i].header.height)
                + SumSeq([t \in 1..(Len(chain[i].transactions) - 1) |->
                            ActualFee(utxoSet, chain[i].transactions[t + 1])])

\* C9: every block after genesis has a coinbase as its first transaction and
\* no coinbase anywhere else.
C9_CoinbaseFirstAndOnly ==
    \A i \in 2..Len(chain) :
        /\ Len(chain[i].transactions) >= 1
        /\ isCoinbase(chain[i].transactions[1])
        /\ \A t \in 2..Len(chain[i].transactions) : ~isCoinbase(chain[i].transactions[t])

\* the non-coinbase transactions of the mempool and of the chain
AdmittedTransactions ==
    Range(mempool)
    \cup UNION {{tx \in Range(chain[i].transactions) : ~isCoinbase(tx)} :
                  i \in 1..Len(chain)}

\* C10: every non-coinbase transaction of the mempool or of the chain has an
\* input total (each distinct outpoint counted once) >= its output total and a
\* fee field equal to input total - output total.
C10_FeeFieldIsInputMinusOutput ==
    \A tx \in AdmittedTransactions :
        /\ ActualFee(utxoSet, tx) >= 0
        /\ tx.fee = ActualFee(utxoSet, tx)

\* C11: the difficulty is within 1..maxDifficulty in every state, whatever
\* timestamps adjustDifficulty observes and however many times it runs.
C11_DifficultyInRange == difficulty \in 1..maxDifficulty

\* adjustDifficulty ran on a fast interval and left the difficulty at the cap
C11_Witness ==
    /\ result.op = "adjustDifficulty"
    /\ getHeight(chain) >= difficultyAdjustmentInterval
    /\ difficulty = maxDifficulty
    /\ getLatestBlock(chain).header.timestamp
         - chain[getHeight(chain) - difficultyAdjustmentInterval + 1].header.timestamp
       < 25000

\* the time between the first and the last block of the interval adjustDifficulty
\* measures
IntervalTime(c) ==
    getLatestBlock(c).header.timestamp
    - c[getHeight(c) - difficultyAdjustmentInterval + 1].header.timestamp

ExpectedTime == targetBlockTime * difficultyAdjustmentInterval

AdjustCall(c, r) ==
    r.op = "adjustDifficulty" /\ getHeight(c) >= difficultyAdjustmentInterval

\* C12: an interval that took exactly 1/5 of the expected time makes
\* adjustDifficulty raise the difficulty unless it is already maxDifficulty, an
\* interval that took 5 times the expected time makes it lower the difficulty
\* unless it is already 1, and the result is within 1..maxDifficulty.
C12_RetargetDirection ==
    [][AdjustCall(chain, result') =>
         /\ (5 * IntervalTime(chain) = ExpectedTime)
               => (difficulty' > difficulty \/ difficulty = maxDifficulty)
         /\ (IntervalTime(chain) = 5 * ExpectedTime)
               => (difficulty' < difficulty \/ difficulty = 1)
         /\ difficulty' \in 1..maxDifficulty]_vars

\* C12 as stated: strictly greater after a 1/5 interval and strictly smaller
\* after a 5-fold interval, for every difficulty of 1..maxDifficulty.
C12_StrictAtEveryDifficulty ==
    [][AdjustCall(chain, result') =>
         /\ (5 * IntervalTime(chain) = ExpectedTime) => difficulty' > difficulty
         /\ (IntervalTime(chain) = 5 * ExpectedTime) => difficulty' < difficulty
         /\ difficulty' \in 1..maxDifficulty]_vars

\* adjustDifficulty ran on an interval of exactly 1/5 of the expected time and
\* the difficulty is one only a raise produces
C12_Witness ==
    /\ AdjustCall(chain, result)
    /\ 5 * IntervalTime(chain) = ExpectedTime
    /\ difficulty \in {3, maxDifficulty - 1}

\* C13: a mineBlock call changes the difficulty only when the height of the
\* chain it starts from is a positive multiple of difficultyAdjustmentInterval,
\* and a call that follows a failed call, at the same height, changes nothing.
C13_RetargetOnlyAtInterval ==
    [][(result'.op = "mineBlock" /\ difficulty' # difficulty) =>
         /\ getHeight(chain) > 0
         /\ getHeight(chain) % difficultyAdjustmentInterval = 0
         /\ ~(result.op = "mineBlock" /\ ~result.success)]_vars

\* C14: deserialize(serialize(chain)) has the same height, the same hash for
\* every block (so the same tip hash, each hash being the recomputed one) and the
\* same UTXO total supply.
C14_RoundTripKeepsChain ==
    [][result'.op = "deserialize" =>
         /\ getHeight(chain') = getHeight(chain)
         /\ \A i \in 1..Len(chain) : chain'[i].hash = chain[i].hash
         /\ utxoSet'.totalSupply = utxoSet.totalSupply]_vars

\* the mempool of a fresh chain holds exactly the transfer of 3 tokens from the
\* genesis-funded address to toAddress
TransferPending(toAddress) ==
    /\ Len(chain) = 1
    /\ Len(mempool) = 1
    /\ mempool[1] = createAndSignTransfer(initialMinerAddress, toAddress, 3 * Unit,
                                          KeyOfAddress(initialMinerAddress), utxoSet,
                                          KeyOfAddress(initialMinerAddress)).tx

\* the last call was a successful mineBlock for miner
MinedBy(miner) ==
    /\ result'.op = "mineBlock"
    /\ result'.success
    /\ Len(chain') = 2
    /\ getLatestBlock(chain').transactions[1].outputs[1].address = miner

C16_DuplicateIsRefused ==
    [][/\ MempoolCall(result') => utxoSet' = utxoSet
       /\ \A tx \in CandidateTransactions(utxoSet) :
            mempoolHas(mempool, tx.id) =>
               /\ ~addTransactionToMempool(tx, utxoSet, mempool).success
               /\ addTransactionToMempool(tx, utxoSet, mempool).mempool = mempool]_vars

\* a submission was refused because the mempool holds its id
C16_Witness ==
    /\ MempoolCall(result)
    /\ ~result.success
    /\ result.error = "duplicate"
    /\ \E k \in 1..Len(mempool) : InputKeys(mempool[k]) = result.arg

\* C17: when addBlock refuses a block because block.isValid fails, the chain,
\* the UTXO set, the mempool and the difficulty are as before the call.
C17_RejectedBlockChangesNothing ==
    [][(result'.op = "addBlock" /\ ~result'.success /\ result'.error # "utxoUpdate")
          => UNCHANGED <<chain, utxoSet, mempool, difficulty>>]_vars

\* a block mined on the block before the tip was refused while a transfer is
\* pending
C17_Witness ==
    /\ result.op = "addBlock"
    /\ ~result.success
    /\ result.error = "height"
    /\ Len(chain) >= 2
    /\ Len(mempool) >= 1

\* C19: after addBlock accepts a block, or mineBlock appends one, no transaction
\* of that block is in the mempool.
C19_AcceptedTransactionsLeaveMempool ==
    [][(result'.op \in {"addBlock", "mineBlock"} /\ result'.success) =>
         \A i \in 1..Len(getLatestBlock(chain').transactions) :
             ~mempoolHas(mempool', getLatestBlock(chain').transactions[i].id)]_vars

C20_StopAbandonsAttempt ==
    [][miningManager.searching /\ miningManager.stopIssuedInSearch
          => chain' = chain]_vars

\* C21: startMining called while the miner wallet is not ready returns
\* success = false, leaves isMining false and starts no mining loop: no block is
\* mined before a startMining call has succeeded with a ready wallet.
C21_NotReadyStartsNothing ==
    ~miningManager.walletReady =>
        /\ ~miningManager.isMining
        /\ ~miningManager.searching
        /\ miningManager.timers = 0
        /\ getHeight(chain) = 0
        /\ result.op = "startMining" => ~result.success /\ result.error = "wallet"

\* startMining was refused for the wallet while a transaction was waiting
C21_Witness ==
    /\ ~miningManager.walletReady
    /\ result.op = "startMining"
    /\ ~result.success
    /\ Len(mempool) > 0

\* a data handler has taken a segment in this step
SegmentTaken == p2pNetwork'.received # p2pNetwork.received

\* C22: a malformed peer message (a segment that is not valid JSON, or a message
\* of unknown type) never crashes the node: the message is dropped, the
\* connection it came from is dropped, chain, UTXO set and mempool are unchanged.
C22_MalformedIsDropped ==
    [][SegmentTaken
       /\ (p2pNetwork'.crashed
           \/ p2pNetwork'.message.type \notin {"NEW_BLOCK", "NEW_TRANSACTION"})
          => /\ ~p2pNetwork'.crashed
             /\ p2pNetwork'.from \notin p2pNetwork'.sockets
             /\ UNCHANGED <<chain, utxoSet, mempool>>]_vars

\* C23: a NEW_TRANSACTION message from a peer leaves the mempool as
\* addTransactionToMempool would, signatures checked: a valid, non-conflicting
\* transaction is in the mempool afterwards, an invalid one changes nothing.
C23_PeerTransactionIsSubmitted ==
    [][SegmentTaken /\ ~p2pNetwork'.crashed
       /\ p2pNetwork'.message.type = "NEW_TRANSACTION"
          => mempool' = addTransactionToMempool(
                            TransactionDeserialize(p2pNetwork'.message.payload),
                            utxoSet, mempool).mempool]_vars

\* proof of work of a branch: 2^difficulty summed over its blocks
CumulativeWork(blocks) ==
    SumSeq([i \in 1..Len(blocks) |-> 2 ^ blocks[i].header.difficulty])

\* the UTXO set of a node that applied BranchY on the genesis block
DirectY ==
    ProcessAll(ProcessAll(ProcessAll(EmptyUTXOSet, GenesisBlock.transactions, 0).set,
                          BranchY[1].transactions, 1).set,
               BranchY[2].transactions, 2).set

\* C24: a node that applied a 2-block branch X and then receives the two blocks
\* of a branch Y from the same fork point with more cumulative proof of work
\* ends with Y as its chain and with the unspent entries and the total supply
\* of a node that applied Y directly.
C24_ReorgToHeavierBranch ==
    [][(/\ SegmentTaken /\ ~p2pNetwork'.crashed
        /\ p2pNetwork.message.type = "NEW_BLOCK"
        /\ p2pNetwork.message.payload = BlockSerialize(BranchY[1])
        /\ p2pNetwork'.message.type = "NEW_BLOCK"
        /\ p2pNetwork'.message.payload = BlockSerialize(BranchY[2])
        /\ Len(chain) = 3
        /\ CumulativeWork(BranchY) > CumulativeWork(SubSeq(chain, 2, 3)))
          => (/\ Len(chain') = 3
              /\ \A i \in 1..2 : chain'[i + 1].hash = BranchY[i].hash
              /\ utxoSet'.utxos = DirectY.utxos
              /\ utxoSet'.totalSupply = DirectY.totalSupply)]_vars

\* C25: whenever a block is accepted into the chain, here one mined by
\* mineBlock, a NEW_BLOCK message carrying that block is later written to every
\* peer socket connected at that time (unless the node has gone down).
C25_AcceptedBlockIsBroadcast ==
    \A peerKey \in Peers :
        [](result.op = "mineBlock" /\ result.success
           /\ peerKey \in p2pNetwork.sockets
              => <>(\/ p2pNetwork.crashed
                    \/ \E w \in p2pNetwork.written :
                          /\ w[1] = peerKey
                          /\ w[2].type = "NEW_BLOCK"
                          /\ \E i \in 2..Len(chain) :
                                 w[2].payload = BlockSerialize(chain[i])))

\* the unspent map, the address index (its content), the spent records and
\* totalSupply of the two sets are the same
SameLedger(S, T) ==
    /\ S.utxos = T.utxos
    /\ Range(S.addressIndex) = Range(T.addressIndex)
    /\ S.spentUTXOs = T.spentUTXOs
    /\ S.totalSupply = T.totalSupply

\* C26: processTransaction is all-or-nothing: when an input names an outpoint
\* that is absent or spent, the call fails and the unspent map, the address
\* index, the spent records and totalSupply are as before the call.
C26_FailedProcessChangesNothing ==
    [][(result'.op = "processTransaction" /\ ~result'.success)
          => SameLedger(utxoSet', utxoSet)]_vars

\* C27: rollbackTransaction(t, h) right after a successful
\* processTransaction(t, h) restores the unspent map, the address index, the
\* spent records and totalSupply.
C27_RollbackInvertsProcess ==
    [][result'.op = "rollbackTransaction" => SameLedger(utxoSet', utxoSet)]_vars

\* the amounts of the first n elements
PrefixTotal(utxos, n) == SumSeq([i \in 1..n |-> utxos[i].amount])

C29_SelectionByFeeWithinLimit ==
    [][(result'.op = "mineBlock")
       => (LET sel == selectTransactionsForBlock(utxoSet, mempool)
               valid(tx) == TransactionIsValid(tx, utxoSet, TRUE) = "ok"
           IN /\ \A i, j \in 1..Len(sel.selected) :
                     i < j => sel.selected[i].fee >= sel.selected[j].fee
              /\ \A i \in 1..Len(sel.selected) :
                     sel.selected[i] \in Range(mempool) /\ valid(sel.selected[i])
              /\ \A tx \in Range(mempool) : valid(tx) <=> tx \in Range(sel.mempool)
              /\ Len(sel.selected) <= maxTransactionsPerBlock)]_vars

\* the transactions the node holds: the mempool and the blocks of the chain
StoredTransactions ==
    Range(mempool) \cup UNION {Range(chain[i].transactions) : i \in 1..Len(chain)}

\* C30: every transaction in the mempool or in a block of the chain, coinbase
\* transactions included, has an id equal to the content hash of its current
\* version, inputs, outputs and lockTime: none is stored under an id computed
\* before its inputs or outputs were last modified.
C30_StoredIdIsContentHash ==
    \A tx \in StoredTransactions : tx.id = TransactionId(tx.inputs, tx.outputs)

\* C31: when Block.mine(difficulty) returns, header.difficulty equals the
\* requested difficulty, block.hash equals the hash recomputed from the final
\* header and block.hash has at least difficulty leading zero digits, also for
\* a block whose hash computed at construction already starts with that many
\* zeros.
C31_MinedHashMatchesHeader ==
    result.op = "mine" =>
        /\ result.arg.block.header.difficulty = result.arg.difficulty
        /\ result.arg.block.hash = calculateHash(result.arg.block.header)
        /\ startsWithZeros(result.arg.block.hash, result.arg.difficulty)

\* C32: an input referencing an outpoint that never existed fails as unknown
\* outpoint, whereas an input referencing an outpoint that existed and was
\* spent by an accepted block fails as already spent.
C32_SpentIsToldFromUnknown ==
    (/\ result.op = "addTransactionToMempool"
     /\ Cardinality(result.arg) = 1)
    => (\A key \in result.arg :
           /\ (/\ ~hasUTXO(utxoSet, key[1], key[2])
               /\ \A u \in utxoSet.spentUTXOs : getKey(u) # key)
              => (~result.success /\ result.error = "utxoMissing")
           /\ (/\ ~hasUTXO(utxoSet, key[1], key[2])
               /\ \E u \in utxoSet.spentUTXOs : getKey(u) = key)
              => (~result.success /\ result.error = "utxoSpent"))

\* the bytes delivered so far without the lead byte of a character whose
\* continuation has not arrived
WholeCharacters(bytes) ==
    IF bytes # <<>> /\ bytes[Len(bytes)] = "L" THEN SubSeq(bytes, 1, Len(bytes) - 1)
    ELSE bytes

\* C33: for any way the bytes of one connection's stream are split into data
\* chunks, handleMessage is invoked exactly once per newline-terminated
\* message, in stream order, and an incomplete trailing message stays buffered
\* (is neither handled nor lost) until its newline arrives: what was handled
\* and what is buffered are what one chunk holding all the bytes would give.
C33_FramingIgnoresChunking ==
    LET whole == DrainBuffer(BufferToString(WholeCharacters(p2pNetwork.arrived)), <<>>)
    IN /\ p2pNetwork.handled = whole.handled
       /\ (p2pNetwork.arrived = WholeCharacters(p2pNetwork.arrived))
          => p2pNetwork.messageBuffer = whole.messageBuffer

\* C34: if mining has been started and is not stopped, every transaction that
\* is admitted to the mempool is eventually contained in a block of the chain
\* and removed from the mempool (or evicted as no longer valid), assuming every
\* proof-of-work search terminates and every timer fires: a mempool that holds
\* transactions is eventually empty, and a transaction leaves the mempool only
\* into the chain or because it no longer validates.
C34_MempoolIsMined ==
    /\ (miningManager.isMining /\ mempool # <<>>) ~> (mempool = <<>>)
    /\ [][\A tx \in Range(mempool) \ Range(mempool') :
              \/ \E i \in 1..Len(chain') : tx \in Range(chain'[i].transactions)
              \/ TransactionIsValid(tx, utxoSet, TRUE) # "ok"]_vars

\* C35: at most one mining loop is live at any time: for every sequence of
\* startMining and stopMining calls and timer firings there is never more
\* than one pending or running mineNextBlock chain.
C35_OneMiningLoop ==
    miningManager.timers + (IF miningManager.searching THEN 1 ELSE 0) <= 1

\* C36: the mempool never contains a coinbase transaction, so every candidate
\* block built by createBlock from a reachable mempool has exactly one
\* coinbase transaction, at position 0, and is not rejected by the coinbase
\* rules of Block.isValid.
C36_NoCoinbaseInMempool ==
    /\ \A tx \in Range(mempool) : ~isCoinbase(tx)
    /\ \E b \in {createBlock(chain, utxoSet, mempool, minerAddress, now).block} :
           /\ isCoinbaseTransaction(b.transactions[1])
           /\ \A i \in 2..Len(b.transactions) : ~isCoinbaseTransaction(b.transactions[i])
    /\ (result.op = "mineBlock") => result.error \notin {"firstNotCoinbase", "secondCoinbase"}

\* C37: every candidate block built by createBlock has at most the number of
\* transactions that Block.isValid allows (maxTransactions, coinbase
\* included), for every mempool size, so a locally assembled block is never
\* rejected by addBlock for its transaction count.
C37_CandidateWithinBlockLimit ==
    /\ Len(createBlock(chain, utxoSet, mempool, minerAddress, now).block.transactions)
         <= maxTransactions
    /\ (result.op = "mineBlock") => (result.error # "tooManyTransactions")

\* C38: supply conservation: after genesis and any sequence of transaction
\* submissions and successfully mined blocks, totalSupply is the genesis
\* funding plus baseBlockReward times the chain height; fees are moved to the
\* miner and are never minted or burned.
C38_SupplyIsFundingPlusRewards ==
    utxoSet.totalSupply = minerInitialAmount + baseBlockReward * getHeight(chain)

\* C39: every non-genesis block of the chain has header.difficulty equal to
\* the chain difficulty in force when the block was admitted: addBlock rejects
\* a block whose header declares a different (in particular a lower)
\* difficulty than the chain's current one.
C39_AdmittedAtChainDifficulty ==
    [][(Len(chain') = Len(chain) + 1)
          => (getLatestBlock(chain').header.difficulty = difficulty')]_vars

====
